---- MODULE Spec2Model ----
\* Room runtime of the collaborative music server (server/app): the room
\* registry, role reservation, control/audio subscriber management, the
\* control-snapshot fan-out, idle reaping and the generator lifecycle.
\*
\* Scheduling model: asyncio, one event loop.  A coroutine runs without
\* interruption until it awaits something that really suspends: a socket
\* send/receive, awaiting the cancelled producer task in close(), a gather.
\* No critical section of room_manager.py contains an await, so the room and
\* manager locks are never contended and "async with self._lock" does not
\* suspend; each action below is one such uninterrupted run.
EXTENDS Integers, Sequences, FiniteSets, TLC

\* ---------------------------------------------------------------- bounds
MaxTime == 1                        \* the clock runs 0..MaxTime
reservation_ttl_seconds == 1        \* Settings knob (default 30), in clock units
room_idle_timeout_seconds == 1      \* Settings knob (default 1800), in clock units
MaxPatchKeys == 2                   \* a control.patch carries at most this many items

\* ---------------------------------------------------------------- values
Roles == {"A", "B"}
NoRole == "none"
ControlSockets == {"w1", "w2"}
AudioSockets == {"a1", "a2"}
Sockets == ControlSockets \cup AudioSockets
Tasks == Sockets \cup {"reaper", "lifespan"}
RoomId == "r1"
NoResv == -1
Null == "null"
ControlIds == {"c1"}
CapacityError == "RoomCapacityError"
RoomNotFoundError == "RoomNotFoundError"
OtherRoomId == "r2"
Unauthorized == "401"
Sessions == {"mock", "remote"}

VARIABLES
    now,          \* wall clock (time.time / datetime.now)
    rooms,        \* RoomManager._rooms: ids in the registry
    created,      \* create_room has minted RoomId
    room,         \* the Room object of RoomId (lives on after removal)
    lyria,        \* the room's MockLyriaSession
    closeCalls,   \* history: number of close() calls made on the generator
    tokens,       \* roles for which join_room has issued a (still valid) token
    lastJoin,     \* history: what the reserve_role call of the step just taken returned
    pc,           \* where each task is suspended
    hrole,        \* room_control_ws: the handler's local `role`
    bc,           \* per control handler: the broadcast it is running
    lastRecv,     \* per control socket: updated_at of the last snapshot received
    stop_event,   \* lifespan's stop signal for the reaper
    lastPatch,    \* history: the control.patch dispatch of the step just taken
    minted,       \* number of prompt ids (uuid4) drawn so far
    audio,        \* the producer's broadcast_audio call: frames emitted, sends in flight
    heard,        \* per audio socket: what its client has received, in order
    mock,         \* a MockLyriaSession driven on its own
    remote,       \* a GoogleLyriaSession driven on its own
    gen_last,     \* history: per session, the last thing that happened to it
    gen_raised,   \* history: per session, whether its last call raised
    gen_chunk,    \* history: per session, bytes handed to the audio-chunk callback at
                  \* the frame boundary just passed (0: no callback, -1: no boundary)
    wall,         \* int(time.time()) as token_utils reads it
    issued,       \* history: the last create_token call and the token it returned
    verdict,      \* history: the last verify_token call on that token and its outcome
    live,         \* per task calling into a room whose generator is remote: where it
                  \* is suspended, the snapshot its call took, what the generator got
    conns         \* the remote connections of that room's session: how many
                  \* initializations began, and which one self._session refers to

roomVars == <<now, rooms, created, room, lyria, closeCalls, tokens, lastJoin,
              pc, hrole, bc, lastRecv, stop_event, lastPatch, minted, audio, heard>>
prodVars == <<minted, audio, heard>>
genVars == <<mock, remote, gen_last, gen_raised, gen_chunk>>
tokVars == <<wall, issued, verdict>>
liveVars == <<live, conns>>
offRoomVars == <<genVars, tokVars, liveVars>>
offGenVars == <<roomVars, tokVars, liveVars>>
offTokVars == <<roomVars, genVars, liveVars>>
vars == <<roomVars, genVars, tokVars, liveVars>>

\* ------------------------------------------------------------- tokens
\* what a client puts in ?token=: nothing, or a token that verify_token
\* accepts or not, carrying a room id and a role
Token(verified, room_id, role) ==
    [verified |-> verified, room_id |-> room_id, role |-> role, present |-> TRUE]
MissingToken == [verified |-> FALSE, room_id |-> RoomId, role |-> "A", present |-> FALSE]

\* the token join_room issues for a role of the room
IssuedToken(role) == Token(TRUE, RoomId, role)

\* no token, a forged or expired one, one issued for another room, and a
\* signed one carrying a role that is no role
RejectedTokens ==
    {MissingToken, Token(FALSE, RoomId, "A"), Token(TRUE, OtherRoomId, "A"),
     Token(TRUE, RoomId, "C")}

TokenInputs == {IssuedToken(r) : r \in Roles} \cup RejectedTokens

\* faulty variant: the room id of the token is not compared with the path
authorize_token_any_room(tok, room_id) ==
    IF ~tok.present THEN Unauthorized
    ELSE IF ~tok.verified THEN Unauthorized
    ELSE IF tok.role \notin {"A", "B"} THEN Unauthorized
    ELSE tok.role

\* _extract_ws_token then _authorize_token: the role, or HTTP 401
authorize_token(tok, room_id) ==
    IF ~tok.present THEN Unauthorized
    ELSE IF ~tok.verified THEN Unauthorized
    ELSE IF tok.room_id # room_id THEN Unauthorized
    ELSE IF tok.role \notin {"A", "B"} THEN Unauthorized
    ELSE tok.role

\* a client can present a token it was issued, or any token the server rejects
Presentable(tok) == tok \in {IssuedToken(r) : r \in tokens} \cup RejectedTokens

\* ------------------------------------------------------------ MusicConfig
\* A JSON / Python value: a number n/d, a string, a boolean or None.
Num(n, d) == [ty |-> "num", n |-> n, d |-> d, s |-> ""]
Str(x) == [ty |-> "str", n |-> 0, d |-> 1, s |-> x]
Bool(b) == [ty |-> "bool", n |-> IF b THEN 1 ELSE 0, d |-> 1, s |-> ""]
None == [ty |-> "null", n |-> 0, d |-> 1, s |-> ""]
Invalid == [ty |-> "invalid", n |-> 0, d |-> 1, s |-> ""]

\* Python ==: numbers (and booleans, which are the integers 0 and 1) compare by
\* value, strings (str-mixin enum members included) by text, None with None.
PyEq(a, b) ==
    IF a.ty \in {"num", "bool"} /\ b.ty \in {"num", "bool"} THEN a.n * b.d = b.n * a.d
    ELSE a.ty = b.ty /\ a.s = b.s

ScaleEnum == {"C_MAJOR_A_MINOR", "D_FLAT_MAJOR_B_FLAT_MINOR", "D_MAJOR_B_MINOR",
              "E_FLAT_MAJOR_C_MINOR", "E_MAJOR_D_FLAT_MINOR", "F_MAJOR_D_MINOR",
              "G_FLAT_MAJOR_E_FLAT_MINOR", "G_MAJOR_E_MINOR", "A_FLAT_MAJOR_F_MINOR",
              "A_MAJOR_G_FLAT_MINOR", "B_FLAT_MAJOR_G_MINOR", "B_MAJOR_A_FLAT_MINOR",
              "SCALE_UNSPECIFIED"}
MusicGenerationMode == {"QUALITY", "DIVERSITY", "VOCALIZATION"}

IntFields == {"bpm", "top_k", "seed"}
FloatFields == {"guidance", "density", "brightness", "temperature"}
BoolFields == {"mute_bass", "mute_drums", "only_bass_and_drums"}
Fields == IntFields \cup FloatFields \cup BoolFields \cup {"scale", "music_generation_mode"}

\* Field(ge=..., le=...) of each numeric field
FieldMin == [bpm |-> 60, top_k |-> 1, seed |-> 0,
             guidance |-> 0, density |-> 0, brightness |-> 0, temperature |-> 0]
FieldMax == [bpm |-> 200, top_k |-> 1000, seed |-> 2147483647,
             guidance |-> 6, density |-> 1, brightness |-> 1, temperature |-> 3]

MusicConfigDefault ==
    [guidance |-> Num(4, 1), bpm |-> Num(130, 1), density |-> Num(5, 10),
     brightness |-> Num(5, 10), scale |-> Str("SCALE_UNSPECIFIED"),
     mute_bass |-> Bool(FALSE), mute_drums |-> Bool(FALSE),
     only_bass_and_drums |-> Bool(FALSE), music_generation_mode |-> Str("QUALITY"),
     temperature |-> Num(11, 10), top_k |-> Num(40, 1), seed |-> None]

\* the decimal strings the model sends, with the integer each one spells
Numerals == [s \in {"130", "140"} |-> IF s = "130" THEN 130 ELSE 140]

\* pydantic (lax mode) validation of one field: the stored value, or Invalid
validate_field(k, v) ==
    IF k \in IntFields THEN
        IF k = "seed" /\ v.ty = "null" THEN None
        ELSE IF v.ty = "num" /\ v.n % v.d = 0
                 /\ FieldMin[k] <= v.n \div v.d /\ v.n \div v.d <= FieldMax[k]
             THEN Num(v.n \div v.d, 1)
        ELSE IF v.ty = "str" /\ v.s \in DOMAIN Numerals
                 /\ FieldMin[k] <= Numerals[v.s] /\ Numerals[v.s] <= FieldMax[k]
             THEN Num(Numerals[v.s], 1)
        ELSE Invalid
    ELSE IF k \in FloatFields THEN
        IF v.ty = "num" /\ FieldMin[k] * v.d <= v.n /\ v.n <= FieldMax[k] * v.d THEN v
        ELSE IF v.ty = "str" /\ v.s \in DOMAIN Numerals
                 /\ FieldMin[k] <= Numerals[v.s] /\ Numerals[v.s] <= FieldMax[k]
             THEN Num(Numerals[v.s], 1)
        ELSE Invalid
    ELSE IF k \in BoolFields THEN
        IF v.ty = "bool" THEN v
        ELSE IF v.ty = "num" /\ v.d = 1 /\ v.n \in {0, 1} THEN Bool(v.n = 1)
        ELSE Invalid
    ELSE IF k = "scale" THEN
        IF v.ty = "str" /\ v.s \in ScaleEnum THEN v ELSE Invalid
    ELSE
        IF v.ty = "str" /\ v.s \in MusicGenerationMode THEN v ELSE Invalid

\* MusicConfig.model_validate(merged): unknown keys are ignored
model_validate(merged) ==
    LET cfg == [k \in Fields |-> validate_field(k, merged[k])]
    IN  [raised |-> \E k \in Fields : cfg[k] = Invalid, cfg |-> cfg]

\* _normalize_config_patch: camelCase aliases to their canonical key
key_map(key) ==
    CASE key = "musicGenerationMode" -> "music_generation_mode"
      [] key = "muteBass" -> "mute_bass"
      [] key = "muteDrums" -> "mute_drums"
      [] key = "onlyBassAndDrums" -> "only_bass_and_drums"
      [] key = "topK" -> "top_k"
      [] OTHER -> key

\* raw_patch is a sequence of <<key, value>> (a dict in insertion order); a
\* later item overwrites an earlier one with the same normalized key
normalize_config_patch(raw_patch) ==
    LET keys == {key_map(raw_patch[i][1]) : i \in 1..Len(raw_patch)}
        last(k) == CHOOSE i \in 1..Len(raw_patch) :
                      /\ key_map(raw_patch[i][1]) = k
                      /\ \A j \in 1..Len(raw_patch) : key_map(raw_patch[j][1]) = k => j <= i
    IN  [k \in keys |-> raw_patch[last(k)][2]]

\* ------------------------------------------------------------------ Room
\* WeightedPrompt; the id is the number of the uuid4 draw
Prompt(id, text, weight, role) ==
    [id |-> id, text |-> text, weight |-> weight, created_by |-> role]

NewRoom(t) ==
    [control_sockets |-> [w \in ControlSockets |-> NoRole],
     audio_sockets   |-> {},
     reservations    |-> [r \in Roles |-> NoResv],
     participants    |-> [r \in Roles |-> [connected |-> FALSE, active_control |-> Null]],
     music_config    |-> MusicConfigDefault,
     prompts         |-> <<>>,
     playback_state  |-> "paused",
     updated_at      |-> t,
     lyria_started   |-> FALSE]

active_roles(rm) == {rm.control_sockets[w] : w \in ControlSockets} \ {NoRole}

touch_locked(rm, t) == [rm EXCEPT !.updated_at = t]

\* faulty variant: a reservation is kept through its expiry instant
sweep_reservations_keeps_expiring(resv, t) ==
    [r \in Roles |-> IF resv[r] # NoResv /\ resv[r] >= t THEN resv[r] ELSE NoResv]

sweep_reservations(resv, t) ==
    [r \in Roles |-> IF resv[r] # NoResv /\ resv[r] > t THEN resv[r] ELSE NoResv]

role_order(preferred) ==
    IF preferred \in Roles
    THEN <<preferred>> \o (IF preferred = "A" THEN <<"B">> ELSE <<"A">>)
    ELSE <<"A", "B">>

\* reserve_role: the room after the call and the role returned (or the error).
reserve_role(rm, preferred, t) ==
    LET swept == sweep_reservations(rm.reservations, t)
        unavailable == active_roles(rm) \cup {r \in Roles : swept[r] # NoResv}
        order == role_order(preferred)
        free == {i \in 1..Len(order) : order[i] \notin unavailable}
    IN  IF free = {}
        THEN [room |-> [rm EXCEPT !.reservations = swept], result |-> CapacityError]
        ELSE LET i == CHOOSE k \in free : \A j \in free : k <= j
                 role == order[i]
             IN  [room |-> [rm EXCEPT !.reservations =
                                [swept EXCEPT ![role] = t + reservation_ttl_seconds]],
                  result |-> role]

register_control_socket(rm, ws, role, t) ==
    touch_locked([rm EXCEPT !.control_sockets[ws] = role,
                            !.reservations[role] = NoResv,
                            !.participants[role] = [connected |-> TRUE, active_control |-> Null]], t)

\* faulty variant: the participant is marked disconnected without a new stamp
unregister_control_socket_unstamped(rm, ws, t) ==
    LET role == rm.control_sockets[ws]
    IN  IF role = NoRole THEN rm
        ELSE [rm EXCEPT !.control_sockets[ws] = NoRole,
                        !.participants[role] = [connected |-> FALSE, active_control |-> Null]]

unregister_control_socket(rm, ws, t) ==
    LET role == rm.control_sockets[ws]
    IN  IF role = NoRole THEN rm
        ELSE touch_locked([rm EXCEPT !.control_sockets[ws] = NoRole,
                                     !.participants[role] = [connected |-> FALSE, active_control |-> Null]], t)

register_audio_socket(rm, ws) == [rm EXCEPT !.audio_sockets = @ \cup {ws}]

unregister_audio_socket(rm, ws) == [rm EXCEPT !.audio_sockets = @ \ {ws}]

set_active_control(rm, role, control_id, t) ==
    touch_locked([rm EXCEPT !.participants[role].active_control = control_id], t)

\* faulty variant: updated_at is stamped before the merged config is validated
apply_music_config_patch_touches_first(rm, patch, t) ==
    LET existing == rm.music_config
        get(k) == IF k \in Fields THEN existing[k] ELSE None
        changed_keys == {k \in DOMAIN patch : ~PyEq(get(k), patch[k])}
        merged == [k \in Fields \cup DOMAIN patch |->
                      IF k \in DOMAIN patch THEN patch[k] ELSE existing[k]]
        v == model_validate(merged)
    IN  IF v.raised
        THEN [raised |-> TRUE, room |-> touch_locked(rm, t), requires_reset |-> FALSE]
        ELSE [raised |-> FALSE,
              room |-> touch_locked([rm EXCEPT !.music_config = v.cfg], t),
              requires_reset |-> changed_keys \cap {"bpm", "scale"} # {}]

\* apply_music_config_patch: whether it raised, the room after it, and the
\* requires_reset flag it returns
apply_music_config_patch(rm, patch, t) ==
    LET existing == rm.music_config
        get(k) == IF k \in Fields THEN existing[k] ELSE None
        changed_keys == {k \in DOMAIN patch : ~PyEq(get(k), patch[k])}
        merged == [k \in Fields \cup DOMAIN patch |->
                      IF k \in DOMAIN patch THEN patch[k] ELSE existing[k]]
        v == model_validate(merged)
    IN  IF v.raised
        THEN [raised |-> TRUE, room |-> rm, requires_reset |-> FALSE]
        ELSE [raised |-> FALSE,
              room |-> touch_locked([rm EXCEPT !.music_config = v.cfg], t),
              requires_reset |-> changed_keys \cap {"bpm", "scale"} # {}]

\* faulty variant: the audio subscribers are not looked at
is_idle_ignores_audio(rm, t) ==
    /\ {w \in ControlSockets : rm.control_sockets[w] # NoRole} = {}
    /\ t - rm.updated_at >= room_idle_timeout_seconds

\* the registered control sockets (the list a control broadcast copies)
control_clients(rm) == {w \in ControlSockets : rm.control_sockets[w] # NoRole}

is_idle(rm, t) ==
    /\ control_clients(rm) = {}
    /\ rm.audio_sockets = {}
    /\ t - rm.updated_at >= room_idle_timeout_seconds

\* faulty variant: stale sockets are dropped but their participants stay connected
evict_stale_keeps_connected(rm, stale, t) ==
    IF stale = {} THEN rm
    ELSE touch_locked(
            [rm EXCEPT !.control_sockets = [w \in ControlSockets |->
                            IF w \in stale THEN NoRole ELSE rm.control_sockets[w]]], t)

\* second critical section of _broadcast_control_payload
evict_stale(rm, stale, t) ==
    IF stale = {} THEN rm
    ELSE LET gone == {rm.control_sockets[w] : w \in stale} \ {NoRole}
         IN  touch_locked(
                [rm EXCEPT !.control_sockets = [w \in ControlSockets |->
                                IF w \in stale THEN NoRole ELSE rm.control_sockets[w]],
                           !.participants = [r \in Roles |->
                                IF r \in gone
                                THEN [connected |-> FALSE, active_control |-> Null]
                                ELSE rm.participants[r]]], t)

\* ------------------------------------------------------ MockLyriaSession
\* a prompt weight that is not a finite float (float("inf"), 1e999)
PosInf == [ty |-> "inf", n |-> 1, d |-> 1, s |-> ""]

\* MockLyriaSession class attributes, and the size of one rendered frame
sample_rate_hz == 48000
channels == 2
frame_ms == 20
frame_count == (sample_rate_hz * frame_ms) \div 1000
frame_bytes == frame_count * channels * 2

\* _task is "none", "alive", "cancelling" (cancelled, not yet ended) or
\* "failed" (done with an exception); phase is 0 or 1 (advanced by a frame)
NewLyria == [running |-> FALSE, playing |-> FALSE, task |-> "none", phase |-> 0,
             prompt_weights |-> <<>>]

lyria_start(ly) ==
    IF ly.task \in {"alive", "cancelling"} THEN ly
    ELSE [ly EXCEPT !.running = TRUE, !.task = "alive"]

lyria_apply_state(ly, st) ==
    [ly EXCEPT !.prompt_weights = [i \in 1..Len(st.prompts) |-> st.prompts[i].weight],
               !.playing = (st.playback_state = "playing"),
               !.phase = IF st.playback_state = "stopped" THEN 0 ELSE @]

lyria_play(ly) == [ly EXCEPT !.playing = TRUE]
lyria_pause(ly) == [ly EXCEPT !.playing = FALSE]
lyria_stop(ly) == [ly EXCEPT !.playing = FALSE, !.phase = 0]
lyria_reset_context(ly) == [ly EXCEPT !.phase = 0]

\* _render_pcm16_stereo raises (math.sin of an infinite angle) when the sum of
\* the prompt weights is not finite
render_raises(ly) == \E i \in 1..Len(ly.prompt_weights) : ly.prompt_weights[i] = PosInf

\* one iteration of _run: nothing while not playing; while playing a frame is
\* rendered, or the task ends with the exception the rendering raised
lyria_run_frame(ly) ==
    IF ~ly.playing THEN ly
    ELSE IF render_raises(ly) THEN [ly EXCEPT !.task = "failed"]
    ELSE [ly EXCEPT !.phase = 1]

\* ensure_session: start and apply_state on the first call only
ensure_session(rm, ly) ==
    IF rm.lyria_started THEN [room |-> rm, lyria |-> ly]
    ELSE [room |-> [rm EXCEPT !.lyria_started = TRUE],
          lyria |-> lyria_apply_state(lyria_start(ly), rm)]

\* close() re-raises the exception of a producer task that has already failed
lyria_close_raises(ly) == ly.task = "failed"

\* close() up to "await self._task": flags cleared, the producer task cancelled
lyria_close_begin(ly) ==
    [ly EXCEPT !.running = FALSE, !.playing = FALSE,
               !.task = IF ly.task = "alive" THEN "cancelling" ELSE @]

\* close() after the cancelled task has ended
lyria_close_end(ly) == [ly EXCEPT !.task = "none"]

\* close() awaited to its end by a sequential caller
lyria_close(ly) ==
    IF lyria_close_raises(ly) THEN lyria_close_begin(ly)
    ELSE lyria_close_end(lyria_close_begin(ly))

\* ------------------------------------------- Room: prompts and playback
MaxPrompts == 2
MaxFrames == 2

\* str(payload.get("text", "")).strip()
Texts == {"", "pad"}

\* payload.get("weight", 1.0): in range, out of range, 1e999, not a number
Weights == {Num(1, 1), Num(11, 1), PosInf, Invalid}

\* str(payload.get("promptId", "")).strip(): an id drawn so far or to come, or
\* (0) a string that is no prompt's id
PromptIds == 0..MaxPrompts

\* float(weight) raises for a value that is no number
float_raises(weight) == weight.ty \notin {"num", "inf"}

\* WeightedPrompt(...) raises ValidationError: text min_length 1, weight ge -10 le 10
weighted_prompt_raises(text, weight) ==
    \/ text = ""
    \/ weight.ty # "num"
    \/ weight.n > 10 * weight.d
    \/ weight.n < (0 - 10) * weight.d

\* faulty variant: the new prompt is put in front of the list
add_prompt_in_front(rm, role, text, weight, id, t) ==
    IF weighted_prompt_raises(text, weight) THEN [raised |-> TRUE, room |-> rm]
    ELSE [raised |-> FALSE,
          room |-> touch_locked([rm EXCEPT !.prompts =
                                    <<Prompt(id, text, weight, role)>> \o @], t)]

\* add_prompt, the part under the room lock; id is the uuid4 the prompt draws
add_prompt(rm, role, text, weight, id, t) ==
    IF weighted_prompt_raises(text, weight) THEN [raised |-> TRUE, room |-> rm]
    ELSE [raised |-> FALSE,
          room |-> touch_locked([rm EXCEPT !.prompts =
                                    Append(@, Prompt(id, text, weight, role))], t)]

\* index of the first prompt with the id, 0 if there is none
first_with_id(prompts, prompt_id) ==
    IF \E i \in 1..Len(prompts) : prompts[i].id = prompt_id
    THEN CHOOSE i \in 1..Len(prompts) :
             /\ prompts[i].id = prompt_id
             /\ \A j \in 1..(i - 1) : prompts[j].id # prompt_id
    ELSE 0

\* faulty variant: the room is touched before the prompt is looked for
update_prompt_weight_touches_first(rm, prompt_id, weight, t) ==
    LET i == first_with_id(rm.prompts, prompt_id)
    IN  IF i = 0 THEN [raised |-> TRUE, room |-> touch_locked(rm, t)]
        ELSE [raised |-> FALSE,
              room |-> touch_locked([rm EXCEPT !.prompts[i].weight = weight], t)]

\* update_prompt_weight, the part under the room lock: the weight is assigned
\* as given
update_prompt_weight(rm, prompt_id, weight, t) ==
    LET i == first_with_id(rm.prompts, prompt_id)
    IN  IF i = 0 THEN [raised |-> TRUE, room |-> rm]
        ELSE [raised |-> FALSE,
              room |-> touch_locked([rm EXCEPT !.prompts[i].weight = weight], t)]

\* the list comprehension of remove_prompt
without_id(prompts, prompt_id) ==
    SelectSeq(prompts, LAMBDA p : p.id # prompt_id)

\* faulty variant: the room is touched before the lengths are compared
remove_prompt_touches_first(rm, prompt_id, t) ==
    LET kept == without_id(rm.prompts, prompt_id)
    IN  [raised |-> Len(kept) = Len(rm.prompts),
         room |-> touch_locked([rm EXCEPT !.prompts = kept], t)]

\* remove_prompt, the part under the room lock
remove_prompt(rm, prompt_id, t) ==
    LET kept == without_id(rm.prompts, prompt_id)
    IN  IF Len(kept) = Len(rm.prompts) THEN [raised |-> TRUE, room |-> rm]
        ELSE [raised |-> FALSE, room |-> touch_locked([rm EXCEPT !.prompts = kept], t)]

\* str(payload.get("command", "")).strip()
Commands == {"play", "Play", "pause", "PAUSE", "stop", "Stop", "reset_context",
             "RESET_CONTEXT", "rewind", ""}

\* faulty variant: the command is compared as it was given
lower_not_applied(command) == command

\* str.lower on the commands above
lower(command) ==
    CASE command = "Play" -> "play"
      [] command = "PAUSE" -> "pause"
      [] command = "Stop" -> "stop"
      [] command = "RESET_CONTEXT" -> "reset_context"
      [] OTHER -> command

\* handle_playback_command raises before it takes the lock
playback_command_raises(command) ==
    lower(command) \notin {"play", "pause", "stop", "reset_context"}

\* handle_playback_command, the part under the room lock (command is one that
\* does not raise)
handle_playback_command(rm, command, t) ==
    touch_locked([rm EXCEPT !.playback_state =
                     CASE lower(command) = "play" -> "playing"
                       [] lower(command) = "pause" -> "paused"
                       [] lower(command) = "stop" -> "stopped"
                       [] OTHER -> @], t)

\* handle_playback_command, the generator calls after the lock is released
lyria_command(ly, command) ==
    CASE lower(command) = "play" -> lyria_play(ly)
      [] lower(command) = "pause" -> lyria_pause(ly)
      [] lower(command) = "stop" -> lyria_stop(ly)
      [] OTHER -> lyria_reset_context(ly)

\* ---------------------------------------------------- GoogleLyriaSession
\* far is what the remote service was last told about playback on the session
\* self._session refers to; reached records whether the call just made went to
\* the remote service
NewRemote == [using_mock |-> FALSE, running |-> FALSE, recv_task |-> "none",
              session_ctx |-> FALSE, session |-> FALSE, latest_state |-> FALSE,
              latest_playing |-> FALSE, mock_fallback |-> NewLyria,
              far |-> "none", reached |-> FALSE]

StartOutcomes == {"ok", "no_package", "connect_raises", "apply_raises"}

\* _start_real_session, by how far it gets before raising
start_real_session(r, outcome) ==
    CASE outcome = "no_package" -> [r EXCEPT !.reached = FALSE]
      [] outcome = "connect_raises" -> [r EXCEPT !.session_ctx = TRUE, !.reached = TRUE]
      [] OTHER -> [r EXCEPT !.session_ctx = TRUE, !.session = TRUE, !.recv_task = "alive",
                            !.far = IF r.latest_state /\ r.latest_playing /\ outcome = "ok"
                                    THEN "playing" ELSE "none",
                            !.reached = TRUE]

remote_start(r, outcome) ==
    IF r.running THEN [r EXCEPT !.reached = FALSE]
    ELSE IF outcome = "ok" THEN [start_real_session(r, outcome) EXCEPT !.running = TRUE]
    ELSE [start_real_session(r, outcome) EXCEPT
              !.using_mock = TRUE,
              !.mock_fallback = lyria_start(@),
              !.running = TRUE]

remote_close_raises(r) == r.using_mock /\ lyria_close_raises(r.mock_fallback)

\* close(): __aexit__ raising is logged and swallowed, so its outcome leaves no trace
remote_close(r) ==
    IF r.using_mock
    THEN IF lyria_close_raises(r.mock_fallback)
         THEN [r EXCEPT !.mock_fallback = lyria_close(@), !.reached = FALSE]
         ELSE [r EXCEPT !.mock_fallback = lyria_close(@), !.running = FALSE,
                        !.reached = FALSE]
    ELSE [r EXCEPT !.running = FALSE, !.recv_task = "none",
                   !.session_ctx = FALSE, !.session = FALSE,
                   !.far = "none", !.reached = r.session_ctx]

\* faulty variant: the state also goes to the remote session when the mock is in use
remote_apply_state_not_delegated(r, st) ==
    [r EXCEPT !.latest_state = TRUE, !.latest_playing = (st.playback_state = "playing"),
              !.mock_fallback = lyria_apply_state(@, st),
              !.far = IF r.session THEN st.playback_state ELSE @,
              !.reached = r.session]

\* apply_state: to the mock when it is in use, else to the remote session if
\* there is one (prompts, config, then play, pause or stop by playback_state)
remote_apply_state(r, st) ==
    IF r.using_mock
    THEN [r EXCEPT !.latest_state = TRUE, !.latest_playing = (st.playback_state = "playing"),
                   !.mock_fallback = lyria_apply_state(@, st), !.reached = FALSE]
    ELSE IF ~r.session
    THEN [r EXCEPT !.latest_state = TRUE, !.latest_playing = (st.playback_state = "playing"),
                   !.reached = FALSE]
    ELSE [r EXCEPT !.latest_state = TRUE, !.latest_playing = (st.playback_state = "playing"),
                   !.far = st.playback_state, !.reached = TRUE]

\* play, pause, stop, reset_context
remote_command(r, command) ==
    IF r.using_mock
    THEN [r EXCEPT !.mock_fallback = lyria_command(@, command), !.reached = FALSE]
    ELSE IF ~r.session
    THEN [r EXCEPT !.reached = FALSE]
    ELSE [r EXCEPT !.far = CASE command = "play" -> "playing"
                             [] command = "pause" -> "paused"
                             [] command = "stop" -> "stopped"
                             [] OTHER -> @,
                   !.reached = TRUE]

\* what apply_state passes on of a RoomState
View(rm) == [prompts |-> rm.prompts, music_config |-> rm.music_config,
             playback_state |-> rm.playback_state]

\* a task that has not called into the room yet
NoCall == [at |-> "new", op |-> "none", session |-> 0,
           snap |-> View(NewRoom(0)), got |-> View(NewRoom(0))]

\* ------------------------------------------------------------ token_utils
MaxTtl == 1                         \* ttl_seconds of a token ranges over 1..MaxTtl
MaxWall == MaxTime + MaxTtl + 1     \* the wall clock runs 0..MaxWall

\* a dict with string keys is a function on TokenKeys; Absent marks a missing key
TokenKeys == {"room_id", "role", "exp", "iat"}
Absent == [ty |-> "absent", n |-> 0, d |-> 1, s |-> ""]
PyTuple(x) == [ty |-> "tuple", n |-> 0, d |-> 1, s |-> x]
PyList(x) == [ty |-> "list", n |-> 0, d |-> 1, s |-> x]
NoDict == [k \in TokenKeys |-> Absent]
Dict(room_id, role, exp) ==
    [k \in TokenKeys |-> IF k = "room_id" THEN room_id
                         ELSE IF k = "role" THEN role
                         ELSE IF k = "exp" THEN exp ELSE Absent]

\* payloads handed to create_token: what join_room passes, one with a tuple
\* value, one that already has an "exp" key
Payloads == {Dict(Str("r1"), Str("A"), Absent),
             Dict(Str("r1"), PyTuple("A,B"), Absent),
             Dict(Str("r1"), Str("A"), Str("never"))}

\* secrets as the bytes of their UTF-8 encoding
Secrets == {<<97>>, <<97, 0>>, <<98>>}

\* json.dumps then json.loads of one value: a tuple is written as an array
\* and read back as a list; strings and integers come back as they were
json_round_trip(v) == IF v.ty = "tuple" THEN PyList(v.s) ELSE v

\* json.dumps(d, separators=(",", ":")).encode("utf-8"), as the dict that
\* json.loads reads back from it
json_dumps(d) == [k \in TokenKeys |-> json_round_trip(d[k])]
json_loads(raw) == raw

\* urlsafe base64 without padding, and its inverse
b64url_encode(data) == [b64 |-> data]
b64url_decode(seg) == seg.b64

\* HMAC pads a key shorter than the hash's block with zero bytes: keys that
\* differ only in trailing zero bytes are the same key
RECURSIVE hmac_key(_)
hmac_key(secret) ==
    IF Len(secret) > 0 /\ secret[Len(secret)] = 0
    THEN hmac_key(SubSeq(secret, 1, Len(secret) - 1))
    ELSE secret

\* hmac.new(key, msg, sha256).digest()
hmac_digest(secret, msg) == [key |-> hmac_key(secret), msg |-> msg]

\* create_token, t_exp and t_iat being the two readings of time.time()
create_token(payload, secret, ttl_seconds, t_exp, t_iat) ==
    LET token_payload == [k \in TokenKeys |->
                              IF k = "exp" THEN Num(t_exp + ttl_seconds, 1)
                              ELSE IF k = "iat" THEN Num(t_iat, 1)
                              ELSE payload[k]]
        payload_segment == b64url_encode(json_dumps(token_payload))
    IN  [payload_segment |-> payload_segment,
         signature_segment |-> b64url_encode(hmac_digest(secret, payload_segment))]

\* payload.get("exp", 0) as an int
exp_of(payload) == IF payload["exp"].ty = "num" THEN payload["exp"].n ELSE 0

\* verify_token on a two-segment token, t being the reading of time.time()
verify_token(token, secret, t) ==
    LET expected_signature == hmac_digest(secret, token.payload_segment)
        actual_signature == b64url_decode(token.signature_segment)
        payload == json_loads(b64url_decode(token.payload_segment))
    IN  IF expected_signature # actual_signature
        THEN [raised |-> "Invalid token signature", payload |-> NoDict]
        ELSE IF exp_of(payload) < t
        THEN [raised |-> "Token expired", payload |-> NoDict]
        ELSE [raised |-> "", payload |-> payload]

NoIssue == [made |-> FALSE, payload |-> NoDict, secret |-> <<>>, ttl_seconds |-> 0,
            token |-> create_token(NoDict, <<>>, 0, 0, 0)]
NoVerdict == [made |-> FALSE, secret |-> <<>>, raised |-> "", payload |-> NoDict]

\* ----------------------------------------------------------- RoomManager
get_room(reg, id) == IF id \in reg THEN id ELSE RoomNotFoundError

EmptyPatch == [k \in {} |-> None]
NoPatch == [seen |-> FALSE, patch |-> EmptyPatch, raised |-> FALSE,
            requires_reset |-> FALSE, reset |-> FALSE]

\* what a client's log holds for the server.audio_format envelope (frames are
\* logged by their number, from 1)
AudioFormat == 0

\* the producer is between two frames, nothing emitted yet
NoAudio == [emitted |-> 0, sending |-> FALSE, pending |-> {}, stale |-> {}]

NoBc == [snap |-> -1, clients |-> {}, pending |-> {}, stale |-> {}, delivered |-> {}, ret |-> "loop"]

Init ==
    /\ now = 0
    /\ rooms = {}
    /\ created = FALSE
    /\ room = NewRoom(0)
    /\ lyria = NewLyria
    /\ closeCalls = 0
    /\ tokens = {}
    /\ lastJoin = NoRole
    /\ pc = [t \in Tasks |-> IF t = "reaper" THEN "wait"
                             ELSE IF t = "lifespan" THEN "serving" ELSE "new"]
    /\ hrole = [w \in ControlSockets |-> NoRole]
    /\ bc = [w \in ControlSockets |-> NoBc]
    /\ lastRecv = [w \in ControlSockets |-> -1]
    /\ stop_event = FALSE
    /\ lastPatch = NoPatch
    /\ minted = 0
    /\ audio = NoAudio
    /\ heard = [a \in AudioSockets |-> <<>>]
    /\ mock = NewLyria
    /\ remote = NewRemote
    /\ gen_last = [x \in Sessions |-> "none"]
    /\ gen_raised = [x \in Sessions |-> FALSE]
    /\ gen_chunk = [x \in Sessions |-> -1]
    /\ wall = 0
    /\ issued = NoIssue
    /\ verdict = NoVerdict
    /\ live = [p \in ControlSockets |-> NoCall]
    /\ conns = [inits |-> 0, current |-> 0]

Tick ==
    /\ now < MaxTime
    /\ now' = now + 1
    /\ lastJoin' = NoRole
    /\ lastPatch' = NoPatch
    /\ UNCHANGED prodVars
    /\ UNCHANGED offRoomVars
    /\ UNCHANGED <<rooms, created, room, lyria, closeCalls, tokens, pc, hrole, bc,
                   lastRecv, stop_event>>

\* ------------------------------------------------------------- HTTP API
\* POST /api/rooms
CreateRoom ==
    /\ ~created
    /\ created' = TRUE
    /\ room' = NewRoom(now)
    /\ rooms' = rooms \cup {RoomId}
    /\ lastJoin' = NoRole
    /\ lastPatch' = NoPatch
    /\ UNCHANGED prodVars
    /\ UNCHANGED offRoomVars
    /\ UNCHANGED <<now, lyria, closeCalls, tokens, pc, hrole, bc, lastRecv, stop_event>>

\* POST /api/rooms/{id}/join: get_room, reserve_role, create_token
Join(preferred) ==
    /\ get_room(rooms, RoomId) # RoomNotFoundError
    /\ LET r == reserve_role(room, preferred, now)
       IN  /\ room' = r.room
           /\ tokens' = IF r.result = CapacityError THEN tokens ELSE tokens \cup {r.result}
           /\ lastJoin' = r.result
    /\ UNCHANGED <<now, rooms, created, lyria, closeCalls, pc, hrole, bc, lastRecv, stop_event>>
    /\ lastPatch' = NoPatch
    /\ UNCHANGED prodVars
    /\ UNCHANGED offRoomVars

\* --------------------------------------------------- shared continuations
AfterClose(t) == IF t = "reaper" THEN "wait" ELSE "done"

\* where task t is once close_room_if_idle has raised: a socket handler logs the
\* exception and ends, the reaper task ends with it
AfterRaise(t) == IF t = "reaper" THEN "crashed" ELSE "done"

\* RoomManager.close_room_if_idle run by task t on room value rm, up to its
\* first suspension (awaiting the cancelled producer inside room.close()).
close_room_if_idle(t, rm) ==
    LET idle == get_room(rooms, RoomId) # RoomNotFoundError /\ is_idle(rm, now)
    IN  /\ room' = rm
        /\ IF ~idle
           THEN /\ pc' = [pc EXCEPT ![t] = AfterClose(t)]
                /\ UNCHANGED <<rooms, lyria, closeCalls>>
           ELSE /\ closeCalls' = closeCalls + 1
                /\ lyria' = lyria_close_begin(lyria)
                /\ IF lyria_close_raises(lyria)
                   THEN /\ rooms' = rooms
                        /\ pc' = [pc EXCEPT ![t] = AfterRaise(t)]
                   ELSE IF lyria.task = "none"
                   THEN /\ rooms' = rooms \ {RoomId}
                        /\ pc' = [pc EXCEPT ![t] = AfterClose(t)]
                   ELSE /\ rooms' = rooms
                        /\ pc' = [pc EXCEPT ![t] = "closing"]

\* Room.broadcast_state run by control handler t on room value rm, from inside
\* the receive loop: snapshot and copy of the subscriber list; with no
\* subscriber it returns at once and the handler is back in its loop
broadcast_in_loop(t, rm) ==
    LET clients == control_clients(rm)
    IN  /\ room' = rm
        /\ IF clients = {}
           THEN /\ bc' = bc
                /\ pc' = [pc EXCEPT ![t] = "loop"]
           ELSE /\ bc' = [bc EXCEPT ![t] = [snap |-> rm.updated_at, clients |-> clients,
                                             pending |-> clients, stale |-> {},
                                             delivered |-> {}, ret |-> "loop"]]
                /\ pc' = [pc EXCEPT ![t] = "sending"]

\* Room.broadcast_state of a handler whose generator calls are behind it; in
\* cleanup (ret = "cleanup") close_room_if_idle follows the broadcast
broadcast_state(t, rm, ret) ==
    LET clients == control_clients(rm)
    IN  IF ret = "loop"
        THEN /\ broadcast_in_loop(t, rm)
             /\ UNCHANGED <<rooms, lyria, closeCalls>>
        ELSE IF clients = {}
        THEN /\ bc' = bc
             /\ close_room_if_idle(t, rm)
        ELSE /\ bc' = [bc EXCEPT ![t] = [snap |-> rm.updated_at, clients |-> clients,
                                          pending |-> clients, stale |-> {},
                                          delivered |-> {}, ret |-> ret]]
             /\ room' = rm
             /\ pc' = [pc EXCEPT ![t] = "sending"]
             /\ UNCHANGED <<rooms, lyria, closeCalls>>

\* finally-block of room_control_ws
control_cleanup(t) ==
    IF get_room(rooms, RoomId) = RoomNotFoundError
    THEN /\ pc' = [pc EXCEPT ![t] = "done"]
         /\ UNCHANGED <<room, rooms, lyria, closeCalls, bc>>
    ELSE broadcast_state(t, unregister_control_socket(room, t, now), "cleanup")

\* finally-block of room_audio_ws
audio_cleanup(t) ==
    IF get_room(rooms, RoomId) = RoomNotFoundError
    THEN /\ pc' = [pc EXCEPT ![t] = "done"]
         /\ UNCHANGED <<room, rooms, lyria, closeCalls>>
    ELSE close_room_if_idle(t, unregister_audio_socket(room, t))

\* --------------------------------------------------- control WebSocket
\* room_control_ws from accept to its first suspension
ControlConnect(w, tok) ==
    /\ pc[w] = "new"
    /\ Presentable(tok)
    /\ IF authorize_token(tok, RoomId) = Unauthorized
       THEN /\ pc' = [pc EXCEPT ![w] = "auth_error"]
            /\ UNCHANGED <<room, lyria, hrole, bc>>
       ELSE IF get_room(rooms, RoomId) = RoomNotFoundError
       THEN /\ pc' = [pc EXCEPT ![w] = "done"]
            /\ UNCHANGED <<room, lyria, hrole, bc>>
       ELSE LET s == ensure_session(room, lyria)
                role == authorize_token(tok, RoomId)
                rm == register_control_socket(s.room, w, role, now)
            IN  /\ lyria' = s.lyria
                /\ room' = rm
                /\ hrole' = [hrole EXCEPT ![w] = role]
                /\ bc' = [bc EXCEPT ![w] = [snap |-> rm.updated_at,
                                            clients |-> control_clients(rm),
                                            pending |-> control_clients(rm), stale |-> {},
                                            delivered |-> {}, ret |-> "loop"]]
                /\ pc' = [pc EXCEPT ![w] = "sending"]
    /\ lastJoin' = NoRole
    /\ lastPatch' = NoPatch
    /\ UNCHANGED prodVars
    /\ UNCHANGED offRoomVars
    /\ UNCHANGED <<now, rooms, created, closeCalls, tokens, lastRecv, stop_event>>

\* the server.error reply to a rejected token has been sent; finally runs
ControlAuthErrorSent(w) ==
    /\ w \in ControlSockets
    /\ pc[w] = "auth_error"
    /\ control_cleanup(w)
    /\ lastJoin' = NoRole
    /\ lastPatch' = NoPatch
    /\ UNCHANGED prodVars
    /\ UNCHANGED offRoomVars
    /\ UNCHANGED <<now, created, tokens, hrole, lastRecv, stop_event>>

\* a socket is open while its handler is in (or will return to) its receive loop
SocketOpen(w) == pc[w] = "loop" \/ (pc[w] = "sending" /\ bc[w].ret = "loop")

\* one _send(ws) of the gather in _broadcast_control_payload
send_json(t, w, ok) ==
    /\ pc[t] = "sending"
    /\ w \in bc[t].pending
    /\ ok => SocketOpen(w)
    /\ bc' = [bc EXCEPT ![t].pending = @ \ {w},
                        ![t].delivered = IF ok THEN @ \cup {w} ELSE @,
                        ![t].stale = IF ok THEN @ ELSE @ \cup {w}]
    /\ lastJoin' = NoRole
    /\ lastPatch' = NoPatch
    /\ UNCHANGED prodVars
    /\ UNCHANGED offRoomVars
    /\ UNCHANGED <<now, rooms, created, room, lyria, closeCalls, tokens, pc, hrole,
                   stop_event>>

SendJson(t, w, ok) == send_json(t, w, ok) /\ UNCHANGED lastRecv

\* the same send, with the client recording the snapshot it received
SendJsonRecorded(t, w, ok) ==
    /\ send_json(t, w, ok)
    /\ lastRecv' = IF ok THEN [lastRecv EXCEPT ![w] = bc[t].snap] ELSE lastRecv

\* faulty variant: the handler does not wait for its sends
gather_not_awaited(b) == TRUE

\* asyncio.gather(*[_send(ws) ...]) returns when every send has ended
gather_done(b) == b.pending = {}

\* the gather has returned: stale sockets are evicted, the handler goes on
BroadcastFinish(t) ==
    /\ pc[t] = "sending"
    /\ gather_done(bc[t])
    /\ LET rm == evict_stale(room, bc[t].stale, now)
       IN  IF bc[t].ret = "loop"
           THEN /\ room' = rm
                /\ pc' = [pc EXCEPT ![t] = "loop"]
                /\ UNCHANGED <<rooms, lyria, closeCalls>>
           ELSE close_room_if_idle(t, rm)
    /\ bc' = [bc EXCEPT ![t] = NoBc]
    /\ lastJoin' = NoRole
    /\ lastPatch' = NoPatch
    /\ UNCHANGED prodVars
    /\ UNCHANGED offRoomVars
    /\ UNCHANGED <<now, created, tokens, hrole, lastRecv, stop_event>>

\* control.interaction event: set_active_control, then broadcast
ReceiveInteraction(w, active, control_id) ==
    /\ w \in ControlSockets
    /\ pc[w] = "loop"
    /\ broadcast_state(w, set_active_control(room, hrole[w],
                           IF active THEN control_id ELSE Null, now), "loop")
    /\ lastJoin' = NoRole
    /\ lastPatch' = NoPatch
    /\ UNCHANGED prodVars
    /\ UNCHANGED offRoomVars
    /\ UNCHANGED <<now, created, tokens, hrole, lastRecv, stop_event>>

\* receive_json raises WebSocketDisconnect, or sending the server.error reply
\* raises; finally runs
ControlDisconnect(w) ==
    /\ w \in ControlSockets
    /\ pc[w] \in {"loop", "send_error"}
    /\ control_cleanup(w)
    /\ hrole' = [hrole EXCEPT ![w] = NoRole]
    /\ lastRecv' = [lastRecv EXCEPT ![w] = -1]
    /\ lastJoin' = NoRole
    /\ lastPatch' = NoPatch
    /\ UNCHANGED prodVars
    /\ UNCHANGED offRoomVars
    /\ UNCHANGED <<now, created, tokens, stop_event>>

\* ----------------------------------------------------- audio WebSocket
AudioConnect(a, tok) ==
    /\ pc[a] = "new"
    /\ Presentable(tok)
    /\ IF authorize_token(tok, RoomId) = Unauthorized
       THEN /\ pc' = [pc EXCEPT ![a] = "auth_error"]
            /\ UNCHANGED <<room, lyria>>
       ELSE IF get_room(rooms, RoomId) = RoomNotFoundError
       THEN /\ pc' = [pc EXCEPT ![a] = "done"]
            /\ UNCHANGED <<room, lyria>>
       ELSE LET s == ensure_session(room, lyria)
            IN  /\ lyria' = s.lyria
                /\ room' = register_audio_socket(s.room, a)
                /\ pc' = [pc EXCEPT ![a] = "audio_format"]
    /\ lastJoin' = NoRole
    /\ lastPatch' = NoPatch
    /\ UNCHANGED prodVars
    /\ UNCHANGED offRoomVars
    /\ UNCHANGED <<now, rooms, created, closeCalls, tokens, hrole, bc, lastRecv,
                   stop_event>>

\* send_audio_format has completed; the handler enters its receive loop
AudioFormatSent(a) ==
    /\ a \in AudioSockets
    /\ pc[a] = "audio_format"
    /\ pc' = [pc EXCEPT ![a] = "loop"]
    /\ lastJoin' = NoRole
    /\ lastPatch' = NoPatch
    /\ heard' = [heard EXCEPT ![a] = Append(@, AudioFormat)]
    /\ UNCHANGED <<minted, audio>>
    /\ UNCHANGED offRoomVars
    /\ UNCHANGED <<now, rooms, created, room, lyria, closeCalls, tokens, hrole, bc,
                   lastRecv, stop_event>>

\* the audio handler leaves its try block (disconnect, or the error reply to a
\* rejected token was sent); finally runs
AudioDisconnect(a) ==
    /\ a \in AudioSockets
    /\ pc[a] \in {"loop", "auth_error"}
    /\ audio_cleanup(a)
    /\ lastJoin' = NoRole
    /\ lastPatch' = NoPatch
    /\ heard' = [heard EXCEPT ![a] = <<>>]
    /\ UNCHANGED <<minted, audio>>
    /\ UNCHANGED offRoomVars
    /\ UNCHANGED <<now, created, tokens, hrole, bc, lastRecv, stop_event>>

\* ------------------------------------------------- reaper and shutdown
\* one iteration of _idle_room_reaper: close_idle_rooms over the listed ids
ReaperIterate ==
    /\ pc["reaper"] = "wait"
    /\ ~stop_event
    /\ close_room_if_idle("reaper", room)
    /\ lastJoin' = NoRole
    /\ lastPatch' = NoPatch
    /\ UNCHANGED prodVars
    /\ UNCHANGED offRoomVars
    /\ UNCHANGED <<now, created, tokens, hrole, bc, lastRecv, stop_event>>

\* room.close() has returned inside close_room_if_idle: the room is popped
CloseFinish(t) ==
    /\ t \in Sockets \cup {"reaper"}
    /\ pc[t] = "closing"
    /\ lyria' = lyria_close_end(lyria)
    /\ rooms' = rooms \ {RoomId}
    /\ pc' = [pc EXCEPT ![t] = AfterClose(t)]
    /\ lastJoin' = NoRole
    /\ lastPatch' = NoPatch
    /\ UNCHANGED prodVars
    /\ UNCHANGED offRoomVars
    /\ UNCHANGED <<now, created, room, closeCalls, tokens, hrole, bc, lastRecv,
                   stop_event>>

\* lifespan after yield: stop_event.set()
Shutdown ==
    /\ pc["lifespan"] = "serving"
    /\ stop_event' = TRUE
    /\ pc' = [pc EXCEPT !["lifespan"] = "await_reaper"]
    /\ lastJoin' = NoRole
    /\ lastPatch' = NoPatch
    /\ UNCHANGED prodVars
    /\ UNCHANGED offRoomVars
    /\ UNCHANGED <<now, rooms, created, room, lyria, closeCalls, tokens, hrole, bc,
                   lastRecv>>

\* the reaper's wait_for returns with the event set and its loop ends
ReaperExit ==
    /\ pc["reaper"] = "wait"
    /\ stop_event
    /\ pc' = [pc EXCEPT !["reaper"] = "stopped"]
    /\ lastJoin' = NoRole
    /\ lastPatch' = NoPatch
    /\ UNCHANGED prodVars
    /\ UNCHANGED offRoomVars
    /\ UNCHANGED <<now, rooms, created, room, lyria, closeCalls, tokens, hrole, bc,
                   lastRecv, stop_event>>

\* close_all once the reaper has been awaited: drain the registry, close rooms
CloseAll ==
    /\ pc["lifespan"] = "await_reaper"
    /\ pc["reaper"] = "stopped"
    /\ rooms' = {}
    /\ IF rooms = {}
       THEN /\ pc' = [pc EXCEPT !["lifespan"] = "done"]
            /\ UNCHANGED <<lyria, closeCalls>>
       ELSE /\ closeCalls' = closeCalls + 1
            /\ lyria' = lyria_close_begin(lyria)
            /\ pc' = [pc EXCEPT !["lifespan"] =
                        IF lyria.task \in {"none", "failed"} THEN "done"
                        ELSE "closing_all"]
    /\ lastJoin' = NoRole
    /\ lastPatch' = NoPatch
    /\ UNCHANGED prodVars
    /\ UNCHANGED offRoomVars
    /\ UNCHANGED <<now, created, room, tokens, hrole, bc, lastRecv, stop_event>>

CloseAllFinish ==
    /\ pc["lifespan"] = "closing_all"
    /\ lyria' = lyria_close_end(lyria)
    /\ pc' = [pc EXCEPT !["lifespan"] = "done"]
    /\ lastJoin' = NoRole
    /\ lastPatch' = NoPatch
    /\ UNCHANGED prodVars
    /\ UNCHANGED offRoomVars
    /\ UNCHANGED <<now, rooms, created, room, closeCalls, tokens, hrole, bc, lastRecv,
                   stop_event>>

\* ------------------------------------------------------- control.patch
\* the (key, value) items a client puts in a patch, and the patches built of them
PatchItems ==
    {<<"bpm", Num(140, 1)>>, <<"bpm", Num(250, 1)>>, <<"bpm", Str("130")>>,
     <<"scale", Str("C_MAJOR_A_MINOR")>>, <<"scale", Str("H_MAJOR")>>,
     <<"topK", Num(50, 1)>>, <<"top_k", Num(0, 1)>>, <<"foo", Num(1, 1)>>}

RawPatches == UNION {[1..n -> PatchItems] : n \in 0..MaxPatchKeys}

\* control.patch event: normalize, apply, reset_context if required, broadcast;
\* an exception is answered with server.error on the sender's own socket
ReceivePatch(w, raw_patch) ==
    /\ w \in ControlSockets
    /\ pc[w] = "loop"
    /\ LET patch == normalize_config_patch(raw_patch)
           r == apply_music_config_patch(room, patch, now)
           ly1 == lyria_apply_state(lyria, r.room)
           rm2 == IF r.requires_reset
                  THEN handle_playback_command(r.room, "reset_context", now)
                  ELSE r.room
           ly2 == IF r.requires_reset
                  THEN lyria_apply_state(lyria_reset_context(ly1), rm2)
                  ELSE ly1
       IN  /\ lastPatch' = [seen |-> TRUE, patch |-> patch, raised |-> r.raised,
                            requires_reset |-> r.requires_reset,
                            reset |-> r.requires_reset]
           /\ IF r.raised
              THEN /\ room' = r.room
                   /\ pc' = [pc EXCEPT ![w] = "send_error"]
                   /\ UNCHANGED <<lyria, bc>>
              ELSE /\ lyria' = ly2
                   /\ broadcast_in_loop(w, rm2)
    /\ lastJoin' = NoRole
    /\ UNCHANGED prodVars
    /\ UNCHANGED <<now, rooms, created, closeCalls, tokens, hrole, lastRecv, stop_event>>
    /\ UNCHANGED offRoomVars

\* the server.error reply has been sent; the handler is back in its loop
ErrorReplySent(w) ==
    /\ w \in ControlSockets
    /\ pc[w] = "send_error"
    /\ pc' = [pc EXCEPT ![w] = "loop"]
    /\ lastJoin' = NoRole
    /\ lastPatch' = NoPatch
    /\ UNCHANGED prodVars
    /\ UNCHANGED <<now, rooms, created, room, lyria, closeCalls, tokens, hrole, bc,
                   lastRecv, stop_event>>
    /\ UNCHANGED offRoomVars

\* -------------------------------------------------- other control events
\* _handle_control_event has raised, leaving the room as rm: no generator
\* call and no broadcast follow, server.error is about to be sent on the
\* sender's socket
dispatch_raises(w, rm) ==
    /\ pc' = [pc EXCEPT ![w] = "send_error"]
    /\ room' = rm
    /\ UNCHANGED <<lyria, bc, minted>>

\* prompt.add event
ReceivePromptAdd(w, text, weight) ==
    /\ w \in ControlSockets
    /\ pc[w] = "loop"
    /\ LET r == add_prompt(room, hrole[w], text, weight, minted + 1, now)
       IN  IF text = "" \/ float_raises(weight)
           THEN dispatch_raises(w, room)
           ELSE IF r.raised
           THEN dispatch_raises(w, r.room)
           ELSE /\ minted < MaxPrompts
                /\ minted' = minted + 1
                /\ lyria' = lyria_apply_state(lyria, r.room)
                /\ broadcast_in_loop(w, r.room)
    /\ lastJoin' = NoRole
    /\ lastPatch' = NoPatch
    /\ UNCHANGED offRoomVars
    /\ UNCHANGED <<now, rooms, created, closeCalls, tokens, hrole, lastRecv, stop_event,
                   audio, heard>>

\* prompt.update_weight event
ReceivePromptUpdate(w, prompt_id, weight) ==
    /\ w \in ControlSockets
    /\ pc[w] = "loop"
    /\ LET r == update_prompt_weight(room, prompt_id, weight, now)
       IN  IF float_raises(weight)
           THEN dispatch_raises(w, room)
           ELSE IF r.raised
           THEN dispatch_raises(w, r.room)
           ELSE /\ lyria' = lyria_apply_state(lyria, r.room)
                /\ broadcast_in_loop(w, r.room)
                /\ UNCHANGED minted
    /\ lastJoin' = NoRole
    /\ lastPatch' = NoPatch
    /\ UNCHANGED offRoomVars
    /\ UNCHANGED <<now, rooms, created, closeCalls, tokens, hrole, lastRecv, stop_event,
                   audio, heard>>

\* prompt.remove event
ReceivePromptRemove(w, prompt_id) ==
    /\ w \in ControlSockets
    /\ pc[w] = "loop"
    /\ LET r == remove_prompt(room, prompt_id, now)
       IN  IF r.raised
           THEN dispatch_raises(w, r.room)
           ELSE /\ lyria' = lyria_apply_state(lyria, r.room)
                /\ broadcast_in_loop(w, r.room)
                /\ UNCHANGED minted
    /\ lastJoin' = NoRole
    /\ lastPatch' = NoPatch
    /\ UNCHANGED offRoomVars
    /\ UNCHANGED <<now, rooms, created, closeCalls, tokens, hrole, lastRecv, stop_event,
                   audio, heard>>

\* playback.command event
ReceivePlayback(w, command) ==
    /\ w \in ControlSockets
    /\ pc[w] = "loop"
    /\ IF playback_command_raises(command)
       THEN dispatch_raises(w, room)
       ELSE LET rm == handle_playback_command(room, command, now)
            IN  /\ lyria' = lyria_apply_state(lyria_command(lyria, command), rm)
                /\ broadcast_in_loop(w, rm)
                /\ UNCHANGED minted
    /\ lastJoin' = NoRole
    /\ lastPatch' = NoPatch
    /\ UNCHANGED offRoomVars
    /\ UNCHANGED <<now, rooms, created, closeCalls, tokens, hrole, lastRecv, stop_event,
                   audio, heard>>

\* an event whose type is none of the handled ones
ReceiveUnsupported(w) ==
    /\ w \in ControlSockets
    /\ pc[w] = "loop"
    /\ dispatch_raises(w, room)
    /\ lastJoin' = NoRole
    /\ lastPatch' = NoPatch
    /\ UNCHANGED offRoomVars
    /\ UNCHANGED <<now, rooms, created, closeCalls, tokens, hrole, lastRecv, stop_event,
                   audio, heard>>

\* ------------------------------------------------------ the room's producer
\* one iteration of MockLyriaSession._run for the room's session: while
\* playing, a frame is rendered and broadcast_audio copies the subscriber set
\* and starts one send per subscriber
ProducerFrame ==
    /\ lyria.task = "alive"
    /\ lyria.running
    /\ ~audio.sending
    /\ lyria.playing
    /\ lyria' = lyria_run_frame(lyria)
    /\ IF render_raises(lyria)
       THEN audio' = audio
       ELSE /\ audio.emitted < MaxFrames
            /\ audio' = [emitted |-> audio.emitted + 1,
                         sending |-> room.audio_sockets # {},
                         pending |-> audio.pending \cup
                             {<<a, audio.emitted + 1>> : a \in room.audio_sockets},
                         stale |-> {}]
    /\ lastJoin' = NoRole
    /\ lastPatch' = NoPatch
    /\ UNCHANGED offRoomVars
    /\ UNCHANGED <<now, rooms, created, room, closeCalls, tokens, pc, hrole, bc, lastRecv,
                   stop_event, minted, heard>>

\* one _safe_send_bytes of the gather in broadcast_audio
AudioSend(a, n, ok) ==
    /\ lyria.task = "alive"
    /\ audio.sending
    /\ <<a, n>> \in audio.pending
    /\ ok => pc[a] \in {"audio_format", "loop"}
    /\ audio' = [audio EXCEPT !.pending = @ \ {<<a, n>>},
                              !.stale = IF ok THEN @ ELSE @ \cup {a}]
    /\ heard' = IF ok THEN [heard EXCEPT ![a] = Append(@, n)] ELSE heard
    /\ lastJoin' = NoRole
    /\ lastPatch' = NoPatch
    /\ UNCHANGED offRoomVars
    /\ UNCHANGED <<now, rooms, created, room, lyria, closeCalls, tokens, pc, hrole, bc,
                   lastRecv, stop_event, minted>>

\* faulty variant: the producer does not wait for its sends
audio_gather_not_awaited(au) == TRUE

\* asyncio.gather(*send_tasks) returns when every send has ended
audio_gather_done(au) == au.pending = {}

\* the gather has returned: the stale sockets are discarded and the producer
\* sleeps until the next frame
AudioBroadcastFinish ==
    /\ lyria.task = "alive"
    /\ audio.sending
    /\ audio_gather_done(audio)
    /\ room' = [room EXCEPT !.audio_sockets = @ \ audio.stale]
    /\ audio' = [audio EXCEPT !.sending = FALSE, !.stale = {}]
    /\ lastJoin' = NoRole
    /\ lastPatch' = NoPatch
    /\ UNCHANGED offRoomVars
    /\ UNCHANGED <<now, rooms, created, lyria, closeCalls, tokens, pc, hrole, bc, lastRecv,
                   stop_event, minted, heard>>

\* lifespan's "await reaper" re-raises the exception the reaper task ended
\* with; close_all is not reached
LifespanReaperRaises ==
    /\ pc["lifespan"] = "await_reaper"
    /\ pc["reaper"] = "crashed"
    /\ pc' = [pc EXCEPT !["lifespan"] = "failed"]
    /\ lastJoin' = NoRole
    /\ lastPatch' = NoPatch
    /\ UNCHANGED prodVars
    /\ UNCHANGED offRoomVars
    /\ UNCHANGED <<now, rooms, created, room, lyria, closeCalls, tokens, hrole, bc,
                   lastRecv, stop_event>>

\* ------------------------------------------- generator sessions on their own
\* the RoomState values handed to apply_state
GenStates == [playback_state : {"playing", "paused", "stopped"},
              prompts : {<<>>, <<Prompt(1, "pad", Num(1, 1), "A")>>,
                         <<Prompt(1, "pad", PosInf, "A")>>}]

Called(x, what, raised) ==
    /\ gen_last' = [gen_last EXCEPT ![x] = what]
    /\ gen_raised' = [gen_raised EXCEPT ![x] = raised]
    /\ gen_chunk' = [gen_chunk EXCEPT ![x] = -1]

\* a frame boundary of session x has passed: n bytes went to the callback
Boundary(x, n) ==
    /\ gen_last' = [gen_last EXCEPT ![x] = "frame"]
    /\ gen_chunk' = [gen_chunk EXCEPT ![x] = n]
    /\ UNCHANGED gen_raised

\* what one iteration of _run hands to the callback
frame_chunk(ly) == IF ly.playing /\ ~render_raises(ly) THEN frame_bytes ELSE 0

MockStart ==
    /\ mock' = lyria_start(mock)
    /\ Called("mock", "start", FALSE)
    /\ UNCHANGED <<remote, offGenVars>>

MockClose ==
    /\ mock' = lyria_close(mock)
    /\ Called("mock", "close", lyria_close_raises(mock))
    /\ UNCHANGED <<remote, offGenVars>>

MockApplyState(st) ==
    /\ mock' = lyria_apply_state(mock, st)
    /\ Called("mock", "apply_state", FALSE)
    /\ UNCHANGED <<remote, offGenVars>>

MockCommand(command) ==
    /\ mock' = CASE command = "play" -> lyria_play(mock)
                 [] command = "pause" -> lyria_pause(mock)
                 [] command = "stop" -> lyria_stop(mock)
                 [] OTHER -> lyria_reset_context(mock)
    /\ Called("mock", "command", FALSE)
    /\ UNCHANGED <<remote, offGenVars>>

\* one iteration of the producer's loop (a frame boundary)
MockFrame ==
    /\ mock.task = "alive" /\ mock.running
    /\ mock' = lyria_run_frame(mock)
    /\ Boundary("mock", frame_chunk(mock))
    /\ UNCHANGED <<remote, offGenVars>>

RemoteStart(outcome) ==
    /\ outcome = "apply_raises" => remote.latest_state
    /\ remote' = remote_start(remote, outcome)
    /\ Called("remote", "start", FALSE)
    /\ UNCHANGED <<mock, offGenVars>>

RemoteClose ==
    /\ remote' = remote_close(remote)
    /\ Called("remote", "close", remote_close_raises(remote))
    /\ UNCHANGED <<mock, offGenVars>>

RemoteApplyState(st) ==
    /\ remote' = remote_apply_state(remote, st)
    /\ Called("remote", "apply_state", FALSE)
    /\ UNCHANGED <<mock, offGenVars>>

RemoteCommand(command) ==
    /\ remote' = remote_command(remote, command)
    /\ Called("remote", "command", FALSE)
    /\ UNCHANGED <<mock, offGenVars>>

\* one iteration of the fallback producer's loop
RemoteFrame ==
    /\ remote.mock_fallback.task = "alive"
    /\ remote.mock_fallback.running
    /\ remote' = [remote EXCEPT !.mock_fallback = lyria_run_frame(@)]
    /\ Boundary("remote", frame_chunk(remote.mock_fallback))
    /\ UNCHANGED <<mock, offGenVars>>

\* the control plane: joins, control sockets, snapshot fan-out
NextControl ==
    \/ Tick
    \/ CreateRoom
    \/ \E p \in Roles \cup {NoRole} : Join(p)
    \/ \E w \in ControlSockets, tok \in TokenInputs : ControlConnect(w, tok)
    \/ \E w \in ControlSockets : ControlAuthErrorSent(w)
    \/ \E t \in ControlSockets, w \in ControlSockets, ok \in BOOLEAN : SendJson(t, w, ok)
    \/ \E t \in ControlSockets : BroadcastFinish(t)
    \/ \E w \in ControlSockets, active \in BOOLEAN, c \in ControlIds :
            ReceiveInteraction(w, active, c)
    \/ \E w \in ControlSockets : ControlDisconnect(w)
    \/ \E t \in ControlSockets : CloseFinish(t)

Spec == Init /\ [][NextControl]_vars

\* the control plane with recording clients: two peers mutating and broadcasting
NextSnap ==
    \/ Tick
    \/ CreateRoom
    \/ \E p \in Roles \cup {NoRole} : Join(p)
    \/ \E w \in ControlSockets, r \in Roles : ControlConnect(w, IssuedToken(r))
    \/ \E t \in ControlSockets, w \in ControlSockets, ok \in BOOLEAN : SendJsonRecorded(t, w, ok)
    \/ \E t \in ControlSockets : BroadcastFinish(t)
    \/ \E w \in ControlSockets, active \in BOOLEAN, c \in ControlIds :
            ReceiveInteraction(w, active, c)

SpecSnap == Init /\ [][NextSnap]_vars

\* the room lifecycle: one control peer, one listener, the reaper and shutdown
NextReap ==
    \/ Tick
    \/ CreateRoom
    \/ Join(NoRole)
    \/ \E tok \in TokenInputs : ControlConnect("w1", tok)
    \/ ControlAuthErrorSent("w1")
    \/ \E ok \in BOOLEAN : SendJson("w1", "w1", ok)
    \/ BroadcastFinish("w1")
    \/ \E active \in BOOLEAN, c \in ControlIds : ReceiveInteraction("w1", active, c)
    \/ ControlDisconnect("w1")
    \/ \E tok \in RejectedTokens : ControlConnect("w2", tok)
    \/ ControlAuthErrorSent("w2")
    \/ \E ok \in BOOLEAN : SendJson("w2", "w1", ok)
    \/ BroadcastFinish("w2")
    \/ \E tok \in TokenInputs : AudioConnect("a1", tok)
    \/ AudioFormatSent("a1")
    \/ AudioDisconnect("a1")
    \/ ReaperIterate
    \/ \E t \in Sockets \cup {"reaper"} : CloseFinish(t)
    \/ Shutdown
    \/ ReaperExit
    \/ CloseAll
    \/ CloseAllFinish

SpecReap == Init /\ [][NextReap]_vars

\* one control peer patching the music configuration
NextPatch ==
    \/ Tick
    \/ CreateRoom
    \/ Join(NoRole)
    \/ \E r \in Roles : ControlConnect("w1", IssuedToken(r))
    \/ SendJson("w1", "w1", TRUE)
    \/ BroadcastFinish("w1")
    \/ \E raw \in RawPatches : ReceivePatch("w1", raw)
    \/ ErrorReplySent("w1")

SpecPatch == Init /\ [][NextPatch]_vars

\* the control plane with every kind of control event (a weight update to a
\* non-finite value is part of NextFault)
NextEvents ==
    \/ Tick
    \/ CreateRoom
    \/ \E r \in Roles : Join(r)
    \/ ControlConnect("w1", IssuedToken("A"))
    \/ ControlConnect("w2", IssuedToken("B"))
    \/ \E t \in ControlSockets, w \in ControlSockets : SendJson(t, w, TRUE)
    \/ \E t \in ControlSockets : BroadcastFinish(t)
    \/ \E text \in Texts, weight \in Weights : ReceivePromptAdd("w1", text, weight)
    \/ \E id \in PromptIds, weight \in Weights \ {PosInf} :
           ReceivePromptUpdate("w1", id, weight)
    \/ \E id \in PromptIds : ReceivePromptRemove("w1", id)
    \/ \E c \in Commands : ReceivePlayback("w1", c)
    \/ ReceiveUnsupported("w1")
    \/ ReceivePatch("w1", <<<<"bpm", Num(250, 1)>>>>)
    \/ ErrorReplySent("w1")

SpecEvents == Init /\ [][NextEvents]_vars

\* the audio plane: a participant who starts and pauses playback, two audio
\* subscribers, and the room's producer
NextAudio ==
    \/ CreateRoom
    \/ Join("A")
    \/ ControlConnect("w1", IssuedToken("A"))
    \/ SendJson("w1", "w1", TRUE)
    \/ BroadcastFinish("w1")
    \/ \E c \in {"play", "pause"} : ReceivePlayback("w1", c)
    \/ \E a \in AudioSockets : AudioConnect(a, IssuedToken("A"))
    \/ \E a \in AudioSockets : AudioFormatSent(a)
    \/ \E a \in AudioSockets : AudioDisconnect(a)
    \/ ProducerFrame
    \/ \E a \in AudioSockets, n \in 1..MaxFrames, ok \in BOOLEAN : AudioSend(a, n, ok)
    \/ AudioBroadcastFinish

SpecAudio == Init /\ [][NextAudio]_vars

\* the life cycle of a room whose producer can fail: a participant adds a
\* prompt, sets its weight, starts playback and leaves; the reaper and the
\* shutdown follow
NextFault ==
    \/ Tick
    \/ CreateRoom
    \/ Join("A")
    \/ ControlConnect("w1", IssuedToken("A"))
    \/ SendJson("w1", "w1", TRUE)
    \/ BroadcastFinish("w1")
    \/ ReceivePromptAdd("w1", "pad", Num(1, 1))
    \/ \E weight \in {Num(11, 1), PosInf} : ReceivePromptUpdate("w1", 1, weight)
    \/ \E c \in {"play", "pause"} : ReceivePlayback("w1", c)
    \/ ProducerFrame
    \/ ControlDisconnect("w1")
    \/ \E t \in {"w1", "reaper"} : CloseFinish(t)
    \/ ReaperIterate
    \/ Shutdown
    \/ ReaperExit
    \/ LifespanReaperRaises
    \/ CloseAll
    \/ CloseAllFinish

SpecFault == Init /\ [][NextFault]_vars

\* every operation that stamps updated_at, one input each, with the clock
\* moving between them; roles are reserved before the second socket connects,
\* and the only dispatch that raises is one naming a prompt id the room lacks
NextTouch ==
    \/ Tick
    \/ CreateRoom
    \/ \E r \in Roles : pc["w2"] = "new" /\ Join(r)
    \/ ControlConnect("w1", IssuedToken("A"))
    \/ ControlConnect("w2", IssuedToken("B"))
    \/ \E w \in ControlSockets : SendJson("w1", w, TRUE)
    \/ SendJson("w1", "w2", FALSE)
    \/ \E w \in ControlSockets : SendJson("w2", w, TRUE)
    \/ \E t \in ControlSockets : BroadcastFinish(t)
    \/ ReceiveInteraction("w1", TRUE, "c1")
    \/ ReceivePromptAdd("w1", "pad", Num(1, 1))
    \/ ReceivePromptUpdate("w1", 1, Num(11, 1))
    \/ ReceivePromptRemove("w1", 1)
    \/ ReceivePatch("w1", <<<<"bpm", Num(140, 1)>>>>)
    \/ ReceivePlayback("w1", "play")
    \/ ErrorReplySent("w1")
    \/ ControlDisconnect("w2")

SpecTouch == Init /\ [][NextTouch]_vars

\* ------------------------------- a room whose generator is the remote session
\* Room methods called by the tasks of two peers; a call on the remote session
\* suspends its caller, and what it tells the remote service is told when the
\* call is made
LiveRest ==
    UNCHANGED <<now, rooms, created, lyria, closeCalls, tokens, lastJoin, pc, hrole, bc,
                lastRecv, stop_event, lastPatch, audio, heard, mock, gen_last,
                gen_raised, gen_chunk, tokVars>>

role_of(p) == IF p = "w1" THEN "A" ELSE "B"

\* apply_state has returned to ensure_session (which then sets _lyria_started)
\* or to the mutation that called it
ApplyStateReturn(p, op, rm, snap, got) ==
    /\ room' = IF op = "ensure" THEN [rm EXCEPT !.lyria_started = TRUE] ELSE rm
    /\ live' = [live EXCEPT ![p] =
                   IF op = "ensure" THEN [NoCall EXCEPT !.at = "idle", !.op = op]
                   ELSE [at |-> "idle", op |-> op, session |-> 0, snap |-> snap, got |-> got]]

\* self._lyria.apply_state(self.state) up to its first suspension: rm is the room
\* and r the session as the caller leaves them, cur the connection self._session
\* refers to; with a remote session _apply_prompts reads the prompts and awaits
\* set_weighted_prompts
ApplyStateBegin(p, op, rm, r, snap, cur) ==
    IF r.using_mock \/ ~r.session
    THEN /\ remote' = remote_apply_state(r, rm)
         /\ ApplyStateReturn(p, op, rm, snap, View(rm))
    ELSE /\ remote' = [r EXCEPT !.latest_state = TRUE,
                                !.latest_playing = (rm.playback_state = "playing"),
                                !.reached = TRUE]
         /\ room' = rm
         /\ live' = [live EXCEPT ![p] =
                        [at |-> "prompts", op |-> op, session |-> cur, snap |-> snap,
                         got |-> [NoCall.got EXCEPT !.prompts = rm.prompts]]]

\* ensure_session up to its first suspension: nothing if _lyria_started, else
\* start(), which returns at once if _running and otherwise enters
\* _start_real_session and awaits the connection
LiveEnsure(p) ==
    /\ created
    /\ live[p].at = "new"
    /\ IF room.lyria_started
       THEN /\ live' = [live EXCEPT ![p].at = "idle"]
            /\ UNCHANGED <<room, remote, conns>>
       ELSE IF remote.running
       THEN /\ ApplyStateBegin(p, "ensure", room, [remote EXCEPT !.reached = FALSE],
                               NoCall.snap, conns.current)
            /\ UNCHANGED conns
       ELSE /\ conns' = [conns EXCEPT !.inits = @ + 1]
            /\ remote' = [remote EXCEPT !.session_ctx = TRUE, !.reached = TRUE]
            /\ live' = [live EXCEPT ![p] = [NoCall EXCEPT !.at = "connect", !.op = "ensure",
                                                         !.session = conns.inits + 1]]
            /\ UNCHANGED room
    /\ UNCHANGED minted
    /\ LiveRest

\* the connection attempt of _start_real_session is over. Established: _session
\* and _recv_task are assigned, the latest state (the room's state object) is
\* applied if there is one, start sets _running. Failed: start falls back to
\* the mock. Either way ensure_session goes on to apply_state
LiveConnected(p, ok) ==
    /\ live[p].at = "connect"
    /\ IF ok
       THEN /\ conns' = [conns EXCEPT !.current = live[p].session]
            /\ ApplyStateBegin(p, "ensure", room,
                   [remote EXCEPT !.session = TRUE, !.recv_task = "alive", !.running = TRUE,
                                  !.far = IF remote.latest_state /\ room.playback_state = "playing"
                                          THEN "playing" ELSE "none"],
                   NoCall.snap, live[p].session)
       ELSE /\ UNCHANGED conns
            /\ ApplyStateBegin(p, "ensure", room,
                   [remote EXCEPT !.using_mock = TRUE, !.mock_fallback = lyria_start(@),
                                  !.running = TRUE],
                   NoCall.snap, conns.current)
    /\ UNCHANGED minted
    /\ LiveRest

\* the awaited remote call of task p has completed and p runs to its next
\* suspension: after the command call, apply_state begins; after
\* set_weighted_prompts, _apply_config reads the config; after
\* set_music_generation_config, playback_state is read and play, pause or stop
\* is called on the session apply_state took at its start; after that call
\* apply_state returns
LiveStep(p) ==
    /\ live[p].at \in {"cmd", "prompts", "config", "playback"}
    /\ CASE live[p].at = "cmd" ->
                ApplyStateBegin(p, "mutation", room, remote, live[p].snap, conns.current)
         [] live[p].at = "prompts" ->
                /\ live' = [live EXCEPT ![p].at = "config",
                                        ![p].got.music_config = room.music_config]
                /\ remote' = [remote EXCEPT !.reached = TRUE]
                /\ UNCHANGED room
         [] live[p].at = "config" ->
                /\ live' = [live EXCEPT ![p].at = "playback",
                                        ![p].got.playback_state = room.playback_state]
                /\ remote' = [remote EXCEPT
                                 !.far = IF live[p].session = conns.current
                                         THEN room.playback_state ELSE @,
                                 !.reached = TRUE]
                /\ UNCHANGED room
         [] OTHER ->
                /\ ApplyStateReturn(p, live[p].op, room, live[p].snap, live[p].got)
                /\ UNCHANGED remote
    /\ UNCHANGED <<minted, conns>>
    /\ LiveRest

\* add_prompt
LiveAddPrompt(p) ==
    /\ live[p].at = "idle"
    /\ minted < MaxPrompts
    /\ LET r == add_prompt(room, role_of(p), "pad", Num(1, 1), minted + 1, now)
       IN  ApplyStateBegin(p, "mutation", r.room, remote, View(r.room), conns.current)
    /\ minted' = minted + 1
    /\ UNCHANGED conns
    /\ LiveRest

\* apply_music_config_patch with a patch that is valid
LivePatch(p, raw_patch) ==
    /\ live[p].at = "idle"
    /\ LET r == apply_music_config_patch(room, normalize_config_patch(raw_patch), now)
       IN  /\ ~r.raised
           /\ ApplyStateBegin(p, "mutation", r.room, remote, View(r.room), conns.current)
    /\ UNCHANGED <<minted, conns>>
    /\ LiveRest

\* handle_playback_command: the state under the lock, then the command on the
\* session (awaited when it goes to the remote service), then apply_state
LivePlayback(p, command) ==
    /\ live[p].at = "idle"
    /\ ~playback_command_raises(command)
    /\ LET rm == handle_playback_command(room, command, now)
       IN  IF remote.using_mock \/ ~remote.session
           THEN ApplyStateBegin(p, "mutation", rm, remote_command(remote, lower(command)),
                                View(rm), conns.current)
           ELSE /\ remote' = remote_command(remote, lower(command))
                /\ room' = rm
                /\ live' = [live EXCEPT ![p] = [at |-> "cmd", op |-> "mutation", session |-> 0,
                                                snap |-> View(rm), got |-> NoCall.got]]
    /\ UNCHANGED <<minted, conns>>
    /\ LiveRest

\* ------------------------------------------------------------ token_utils
\* the wall clock passes a second boundary
WallTick ==
    /\ wall < MaxWall
    /\ wall' = wall + 1
    /\ verdict' = NoVerdict
    /\ UNCHANGED <<issued, offTokVars>>

\* create_token(payload, secret, ttl_seconds): time.time() is read twice, and a
\* second boundary may lie between the two readings
CreateToken(payload, secret, ttl_seconds) ==
    \E t_iat \in {wall, wall + 1} :
        /\ t_iat <= MaxWall
        /\ issued' = [made |-> TRUE, payload |-> payload, secret |-> secret,
                      ttl_seconds |-> ttl_seconds,
                      token |-> create_token(payload, secret, ttl_seconds, wall, t_iat)]
        /\ wall' = t_iat
        /\ verdict' = NoVerdict
        /\ UNCHANGED offTokVars

\* verify_token(token, secret) on the token last created
VerifyToken(secret) ==
    /\ issued.made
    /\ LET out == verify_token(issued.token, secret, wall)
       IN  verdict' = [made |-> TRUE, secret |-> secret, raised |-> out.raised,
                       payload |-> out.payload]
    /\ UNCHANGED <<wall, issued, offTokVars>>

\* tokens created and verified under the same and under other secrets
NextToken ==
    \/ WallTick
    \/ \E payload \in Payloads, secret \in Secrets, ttl_seconds \in 1..MaxTtl :
           CreateToken(payload, secret, ttl_seconds)
    \/ \E secret \in Secrets : VerifyToken(secret)

SpecToken == Init /\ [][NextToken]_vars

\* a room with the remote generator: two peers connect and mutate
NextLive ==
    \/ CreateRoom
    \/ \E p \in ControlSockets : LiveEnsure(p)
    \/ \E p \in ControlSockets, ok \in BOOLEAN : LiveConnected(p, ok)
    \/ \E p \in ControlSockets : LiveStep(p)
    \/ LiveAddPrompt("w1")
    \/ LivePatch("w2", <<<<"density", Num(1, 1)>>>>)
    \/ \E p \in ControlSockets, c \in {"play", "pause", "stop", "reset_context"} :
           LivePlayback(p, c)

SpecLive == Init /\ [][NextLive]_vars

\* a mock and a remote generator session, each driven call after call
NextGen ==
    \/ MockStart
    \/ MockClose
    \/ \E st \in GenStates : MockApplyState(st)
    \/ \E c \in {"play", "pause", "stop", "reset_context"} : MockCommand(c)
    \/ MockFrame
    \/ \E o \in StartOutcomes : RemoteStart(o)
    \/ RemoteClose
    \/ \E st \in GenStates : RemoteApplyState(st)
    \/ RemoteFrame

SpecGen == Init /\ [][NextGen]_vars

\* one GoogleLyriaSession driven through its whole interface
NextRemote ==
    \/ \E o \in StartOutcomes : RemoteStart(o)
    \/ RemoteClose
    \/ \E st \in GenStates : RemoteApplyState(st)
    \/ \E c \in {"play", "pause", "stop", "reset_context"} : RemoteCommand(c)
    \/ RemoteFrame

SpecRemote == Init /\ [][NextRemote]_vars

\* ================================================================ claims
\* the role a registered socket is bound to, and the roles free for reservation
\* as the specification words it: not bound to a registered control socket and
\* not covered by a reservation whose expiry is later than now
BoundRoles == {r \in Roles : \E w \in ControlSockets : room.control_sockets[w] = r}
Reserved(r) == room.reservations[r] # NoResv /\ room.reservations[r] > now
FreeRoles == {r \in Roles : r \notin BoundRoles /\ ~Reserved(r)}

\* C1: at most one control socket is registered per role (a second socket
\* presenting a valid token for a role that is already bound does not end up
\* registered under that role as well).
C1_RoleUniqueness ==
    \A w1, w2 \in ControlSockets :
        (w1 # w2 /\ room.control_sockets[w1] # NoRole)
            => room.control_sockets[w1] # room.control_sockets[w2]

\* C2: participants[R].connected holds exactly when some control socket is
\* registered for R.
C2_ConnectedIffRegistered ==
    \A r \in Roles : room.participants[r].connected <=> (r \in BoundRoles)

\* C3: reserve_role succeeds exactly when some role is free, and returns a free
\* role (the preferred one when it is free); so on a room with no socket the
\* first call succeeds, a second call within the TTL returns the other role, a
\* third call within the TTL fails with RoomCapacityError, and a role whose
\* reservation has run out without registration is handed out again.
C3_Capacity ==
    [][lastJoin' # NoRole =>
          /\ (lastJoin' \in Roles) <=> (FreeRoles # {})
          /\ (lastJoin' \notin Roles) => lastJoin' = CapacityError
          /\ (lastJoin' \in Roles) =>
                /\ lastJoin' \in FreeRoles
                /\ room'.reservations[lastJoin'] = now + reservation_ttl_seconds
          /\ (BoundRoles = {} /\ Cardinality({r \in Roles : Reserved(r)}) = 1)
                => (lastJoin' \in Roles /\ ~Reserved(lastJoin'))
          /\ (BoundRoles = {} /\ \A r \in Roles : Reserved(r))
                => lastJoin' = CapacityError
          /\ \A p \in Roles : Join(p) =>
                /\ p \in FreeRoles => lastJoin' = p
                /\ (p \notin BoundRoles /\ room.reservations[p] # NoResv
                        /\ room.reservations[p] <= now) => lastJoin' = p
      ]_vars

\* C3 witness: a third call inside the TTL of two unregistered reservations failed
C3_Witness ==
    /\ lastJoin = CapacityError
    /\ BoundRoles = {}
    /\ ~room.lyria_started
    /\ \A r \in Roles : Reserved(r)

\* every numeric field of a stored MusicConfig is a number inside its bounds
\* (seed may also be None), every other field a value of its type
InRange(cfg) ==
    /\ \A k \in IntFields \cup FloatFields :
          \/ k = "seed" /\ cfg[k] = None
          \/ /\ cfg[k].ty = "num"
             /\ FieldMin[k] * cfg[k].d <= cfg[k].n
             /\ cfg[k].n <= FieldMax[k] * cfg[k].d
             /\ k \in IntFields => cfg[k].d = 1
    /\ \A k \in BoolFields : cfg[k].ty = "bool"
    /\ cfg["scale"].ty = "str" /\ cfg["scale"].s \in ScaleEnum
    /\ cfg["music_generation_mode"].s \in MusicGenerationMode

\* the stored value is the given one (a decimal string given for a number
\* stands for that number)
SameValue(stored, given) ==
    \/ PyEq(stored, given)
    \/ given.ty = "str" /\ given.s \in DOMAIN Numerals /\ stored = Num(Numerals[given.s], 1)

\* C4: apply_music_config_patch either replaces music_config with the validated
\* merge of the current config and the patch (patched fields take the patch
\* value, all others keep theirs, nothing else but updated_at moves), or raises
\* and leaves the whole room state, updated_at included, as it was; so every
\* field of music_config is within its range in every reachable state.
C4_PatchAtomicity ==
    /\ [](InRange(room.music_config))
    /\ [][lastPatch'.seen =>
             IF lastPatch'.raised
             THEN room' = room
             ELSE /\ \A k \in Fields :
                        IF k \in DOMAIN lastPatch'.patch
                        THEN SameValue(room'.music_config[k], lastPatch'.patch[k])
                        ELSE room'.music_config[k] = room.music_config[k]
                  /\ InRange(room'.music_config)
                  /\ room'.updated_at = now
                  /\ [room' EXCEPT !.music_config = room.music_config,
                                   !.updated_at = room.updated_at] = room
      ]_vars

\* C4 witness: after an accepted patch has changed the config, a later patch
\* has just been rejected at a time when the clock is past updated_at
C4_Witness ==
    /\ lastPatch.seen /\ lastPatch.raised
    /\ Cardinality(DOMAIN lastPatch.patch) = 2
    /\ room.music_config # MusicConfigDefault
    /\ room.updated_at < now

\* C5: requires_reset is true exactly when the bpm or the scale of the resulting
\* config differs from the pre-patch config, and when it is true the dispatch
\* calls reset_context on the generator before it broadcasts.
C5_ResetTrigger ==
    [][(lastPatch'.seen /\ ~lastPatch'.raised) =>
          /\ lastPatch'.requires_reset <=>
                \/ room'.music_config["bpm"] # room.music_config["bpm"]
                \/ room'.music_config["scale"] # room.music_config["scale"]
          /\ lastPatch'.requires_reset => lastPatch'.reset
      ]_vars

\* C6: the updated_at values of the state snapshots a control subscriber
\* receives are non-decreasing in the order it receives them.
C6_SnapshotMonotonic ==
    [][\A w \in ControlSockets :
          lastRecv'[w] # -1 => lastRecv'[w] >= lastRecv[w]]_vars

\* C7: a failed send does not stop the other sends of the same broadcast; the
\* failing socket is removed from the subscriber map and its role's participant
\* gets connected = false and active_control = null; broadcasts begun afterwards
\* go to exactly the sockets still registered.
C7_FanOutIsolation ==
    /\ [](\A t \in ControlSockets :
            (pc[t] = "sending" /\ bc[t].pending = {})
                => /\ bc[t].clients = bc[t].delivered \cup bc[t].stale
                   /\ bc[t].delivered \cap bc[t].stale = {})
    /\ [][\A t \in ControlSockets, w \in ControlSockets :
            SendJson(t, w, FALSE) =>
                /\ bc'[t].pending = bc[t].pending \ {w}
                /\ bc'[t].delivered = bc[t].delivered]_vars
    /\ [][\A t \in ControlSockets : BroadcastFinish(t) =>
            \A w \in bc[t].stale :
                /\ room'.control_sockets[w] = NoRole
                /\ room.control_sockets[w] # NoRole =>
                      room'.participants[room.control_sockets[w]] =
                          [connected |-> FALSE, active_control |-> Null]]_vars
    /\ [][\A t \in ControlSockets :
            (pc[t] # "sending" /\ pc'[t] = "sending") =>
                bc'[t].clients = control_clients(room')]_vars

\* C7 witness: w1 was evicted while its handler is still in its receive loop,
\* and a broadcast begun afterwards has reached the remaining subscriber w2
C7_Witness ==
    \E w1, w2 \in ControlSockets :
        /\ w1 # w2
        /\ pc[w1] = "loop"
        /\ room.control_sockets[w1] = NoRole
        /\ ~room.participants[hrole[w1]].connected
        /\ room.control_sockets[w2] # NoRole
        /\ \E t \in ControlSockets :
              /\ pc[t] = "sending"
              /\ w1 \notin bc[t].clients
              /\ w2 \in bc[t].delivered

\* idle as the specification words it: both subscriber sets are empty and the
\* time since updated_at is at least room_idle_timeout
IdleRoom(rm, t) ==
    /\ \A w \in ControlSockets : rm.control_sockets[w] = NoRole
    /\ rm.audio_sockets = {}
    /\ t - rm.updated_at >= room_idle_timeout_seconds

\* the steps in which some task runs close_room_if_idle from its start
RunsCloseRoomIfIdle ==
    \/ ReaperIterate
    \/ \E a \in AudioSockets : AudioDisconnect(a)
    \/ \E w \in ControlSockets : ControlDisconnect(w)
    \/ \E w \in ControlSockets : ControlAuthErrorSent(w)
    \/ \E w \in ControlSockets : BroadcastFinish(w) /\ bc[w].ret = "cleanup"

IsCloseAllStep == pc["lifespan"] = "await_reaper" /\ pc'["lifespan"] # "await_reaper"

C9_ClosedExactlyOnce ==
    /\ closeCalls <= 1
    /\ (closeCalls = 1 /\ \A t \in Tasks : pc[t] \notin {"closing", "closing_all"})
          => RoomId \notin rooms

\* C10: a second start issued right after a start leaves a session (mock or
\* remote) as the first one left it, with its one producer / receive task; and
\* close returns without raising and leaves the session stopped, whatever was
\* called before it.
C10_IdempotentLifecycle ==
    /\ [](gen_last["mock"] = "close" =>
             /\ ~gen_raised["mock"]
             /\ ~mock.running /\ ~mock.playing /\ mock.task = "none")
    /\ [](gen_last["remote"] = "close" =>
             /\ ~gen_raised["remote"]
             /\ ~remote.running)
    /\ [][(gen_last["mock"] = "start" /\ MockStart) => mock' = mock]_vars
    /\ [][\A o \in StartOutcomes :
             (gen_last["remote"] = "start" /\ RemoteStart(o)) => remote' = remote]_vars

\* C11: at a frame boundary the mock generator calls the audio-chunk callback
\* exactly when the session is playing at that boundary, and the buffer it
\* passes is 960 samples x 2 channels x 2 bytes = 3840 bytes.
C11_FrameIffPlaying ==
    [][MockFrame =>
          /\ (gen_chunk'["mock"] > 0) <=> mock.playing
          /\ gen_chunk'["mock"] > 0 => gen_chunk'["mock"] = 3840
      ]_vars

\* C14: a WebSocket that presents no token, a token that fails verification, a
\* token of another room or a token with a role outside {A, B} is rejected
\* before registration: its connect step and its cleanup leave the control
\* map, the audio set and every participant as they were, and it is never a
\* member of either subscriber collection.
C14_RejectedNeverRegistered ==
    /\ [][\A x \in Sockets, tok \in RejectedTokens :
             ((x \in ControlSockets /\ ControlConnect(x, tok))
                 \/ (x \in AudioSockets /\ AudioConnect(x, tok)))
             => (pc'[x] = "auth_error" /\ room' = room)]_vars
    /\ [][\A x \in Sockets :
             (pc[x] = "auth_error" /\ pc'[x] # "auth_error")
             => /\ room'.control_sockets = room.control_sockets
                /\ room'.audio_sockets = room.audio_sockets
                /\ room'.participants = room.participants]_vars
    /\ [](\A w \in ControlSockets : pc[w] \in {"new", "auth_error"}
                                        => room.control_sockets[w] = NoRole)
    /\ [](\A a \in AudioSockets : pc[a] \in {"new", "auth_error"}
                                      => a \notin room.audio_sockets)

\* C14 witness: a control socket and an audio socket have been rejected, and the
\* control socket has gone through its cleanup, while a participant is connected
C14_Witness ==
    /\ pc["w2"] = "done" /\ hrole["w2"] = NoRole
    /\ pc["a1"] = "auth_error"
    /\ room.control_sockets["w1"] \in Roles
    /\ room.participants[room.control_sockets["w1"]].connected

\* a dispatch on socket w that ends in an exception
DispatchRaised(w) == pc[w] = "loop" /\ pc'[w] = "send_error"

\* ids of the prompts of a list
PromptIdsOf(prompts) == {prompts[i].id : i \in 1..Len(prompts)}

\* C13: each of the listed bad events (unknown type, empty prompt text,
\* malformed weight, prompt not found, unknown playback command, invalid patch)
\* raises; a dispatch that raises leaves the room, the generator, the registry
\* and every broadcast and subscriber as they were, with the sender still
\* registered; the server.error reply goes to the sender only and puts its
\* handler back in the receive loop.
C13_DispatchErrorIsolation ==
    /\ [][(\/ ReceiveUnsupported("w1")
           \/ \E weight \in Weights : ReceivePromptAdd("w1", "", weight)
           \/ ReceivePromptAdd("w1", "pad", Invalid)
           \/ \E id \in PromptIds : ReceivePromptUpdate("w1", id, Invalid)
           \/ \E id \in PromptIds \ PromptIdsOf(room.prompts), weight \in Weights :
                  ReceivePromptUpdate("w1", id, weight)
           \/ \E id \in PromptIds \ PromptIdsOf(room.prompts) : ReceivePromptRemove("w1", id)
           \/ ReceivePlayback("w1", "rewind")
           \/ ReceivePatch("w1", <<<<"bpm", Num(250, 1)>>>>))
          => DispatchRaised("w1")]_vars
    /\ [][\A w \in ControlSockets :
             DispatchRaised(w)
             => /\ room' = room /\ lyria' = lyria /\ rooms' = rooms
                /\ bc' = bc /\ lastRecv' = lastRecv
                /\ RoomId \in rooms
                /\ room.control_sockets[w] \in Roles]_vars
    /\ [][\A w \in ControlSockets :
             ErrorReplySent(w)
             => /\ pc' = [pc EXCEPT ![w] = "loop"]
                /\ room' = room /\ bc' = bc /\ lastRecv' = lastRecv
                /\ RoomId \in rooms'
                /\ room'.control_sockets[w] \in Roles]_vars

\* C13 witness: an event of w1 has raised while w2 is subscribed, one prompt
\* exists and time has passed since the room was last touched
C13_Witness ==
    /\ pc["w1"] = "send_error"
    /\ pc["w2"] = "loop"
    /\ room.control_sockets["w2"] \in Roles
    /\ Len(room.prompts) = 1
    /\ room.updated_at < now

\* C15: the prompt ids of a room are pairwise distinct and in insertion order;
\* add_prompt appends exactly one prompt with a new id, update_prompt_weight
\* changes only the weight of the prompt with the given id, remove_prompt
\* removes only that prompt and keeps the order of the others, and a call that
\* raises changes nothing.
C15_PromptLifecycle ==
    /\ [](\A i, j \in 1..Len(room.prompts) : i < j => room.prompts[i].id < room.prompts[j].id)
    /\ [][\A text \in Texts, weight \in Weights :
             (ReceivePromptAdd("w1", text, weight) /\ ~DispatchRaised("w1"))
             => /\ Len(room'.prompts) = Len(room.prompts) + 1
                /\ SubSeq(room'.prompts, 1, Len(room.prompts)) = room.prompts
                /\ room'.prompts[Len(room'.prompts)].id \notin PromptIdsOf(room.prompts)
                /\ room'.prompts[Len(room'.prompts)].text = text
                /\ room'.prompts[Len(room'.prompts)].weight = weight]_vars
    /\ [][\A id \in PromptIds, weight \in Weights :
             (ReceivePromptUpdate("w1", id, weight) /\ ~DispatchRaised("w1"))
             => /\ Len(room'.prompts) = Len(room.prompts)
                /\ id \in PromptIdsOf(room.prompts)
                /\ \A i \in 1..Len(room.prompts) :
                       IF room.prompts[i].id = id
                       THEN room'.prompts[i] = [room.prompts[i] EXCEPT !.weight = weight]
                       ELSE room'.prompts[i] = room.prompts[i]]_vars
    /\ [][\A id \in PromptIds :
             (ReceivePromptRemove("w1", id) /\ ~DispatchRaised("w1"))
             => \E k \in 1..Len(room.prompts) :
                    /\ room.prompts[k].id = id
                    /\ Len(room'.prompts) = Len(room.prompts) - 1
                    /\ \A i \in 1..(k - 1) : room'.prompts[i] = room.prompts[i]
                    /\ \A i \in k..Len(room'.prompts) : room'.prompts[i] = room.prompts[i + 1]]_vars
    /\ [][(DispatchRaised("w1")) => room'.prompts = room.prompts]_vars

\* C15 witness: two prompts were added, the first was removed and the weight of
\* the second was updated
C15_Witness ==
    /\ minted = 2
    /\ Len(room.prompts) = 1
    /\ room.prompts[1].id = 2
    /\ room.prompts[1].weight = Num(11, 1)

\* C16: play, pause and stop, in any letter case, set playback_state to
\* playing, paused and stopped; reset_context in any case leaves playback_state
\* as it is; none of these raises; any other command raises and leaves the
\* room (updated_at included) and the generator untouched.
C16_PlaybackCommands ==
    [][\A c \in Commands :
          ReceivePlayback("w1", c)
          => /\ c \in {"play", "Play"}
                  => (~DispatchRaised("w1") /\ room'.playback_state = "playing")
             /\ c \in {"pause", "PAUSE"}
                  => (~DispatchRaised("w1") /\ room'.playback_state = "paused")
             /\ c \in {"stop", "Stop"}
                  => (~DispatchRaised("w1") /\ room'.playback_state = "stopped")
             /\ c \in {"reset_context", "RESET_CONTEXT"}
                  => (~DispatchRaised("w1") /\ room'.playback_state = room.playback_state)
             /\ c \in {"rewind", ""}
                  => (DispatchRaised("w1") /\ room' = room /\ lyria' = lyria)]_vars

\* C16 witness: a stop command has been applied (the generator's phase is back
\* at 0 after frames were played) and a later command was refused
C16_Witness ==
    /\ room.playback_state = "stopped"
    /\ ~lyria.playing
    /\ pc["w1"] = "send_error"
    /\ room.updated_at < now

\* C17: a control handler starts a dispatch only from its receive loop, with
\* no broadcast of its own outstanding, and it returns to the loop after a
\* mutating event only when every send of the snapshot broadcast has ended,
\* each subscriber copied for the broadcast having been sent to (or found stale).
C17_PerSocketOrdering ==
    /\ [](\A w \in ControlSockets : pc[w] \in {"loop", "send_error"} => bc[w] = NoBc)
    /\ [][\A w \in ControlSockets :
             (pc[w] = "sending" /\ pc'[w] = "loop")
             => /\ bc[w].pending = {}
                /\ bc[w].delivered \cup bc[w].stale = bc[w].clients]_vars

\* C17 witness: the snapshot of a prompt.add of w1 has been sent to both
\* subscribers and the handler is about to return to its loop
C17_Witness ==
    /\ pc["w1"] = "sending"
    /\ bc["w1"].ret = "loop"
    /\ bc["w1"].pending = {}
    /\ bc["w1"].delivered = {"w1", "w2"}
    /\ Len(room.prompts) = 1
    /\ bc["w1"].snap = room.updated_at

\* C12: what an audio subscriber receives starts with the server.audio_format
\* envelope, which it receives exactly once: no binary frame comes before it,
\* and a subscriber whose handler is in its receive loop has received it.
C12_FormatBeforeFrames ==
    \A a \in AudioSockets :
        /\ heard[a] # <<>> => heard[a][1] = AudioFormat
        /\ \A i \in 2..Len(heard[a]) : heard[a][i] # AudioFormat
        /\ pc[a] = "loop" => heard[a] # <<>>

\* the frames a client has received, in the order it received them
FramesHeard(a) == SelectSeq(heard[a], LAMBDA x : x # AudioFormat)

\* C18: every audio subscriber receives the frames in the order the generator
\* emitted them; a subscriber whose send fails is noted as stale and, when the
\* broadcast of that frame ends, is removed from the audio-subscriber set, the
\* other subscribers and the rest of the room staying as they were.
C18_AudioFrameOrder ==
    /\ [](\A a \in AudioSockets : \A i, j \in 1..Len(FramesHeard(a)) :
              i < j => FramesHeard(a)[i] < FramesHeard(a)[j])
    /\ [][\A a \in AudioSockets, n \in 1..MaxFrames :
             AudioSend(a, n, FALSE) => (a \in audio'.stale /\ room' = room)]_vars
    /\ [][AudioBroadcastFinish
             => /\ room' = [room EXCEPT !.audio_sockets = room.audio_sockets \ audio.stale]
                /\ audio.pending = {}]_vars

\* C18 witness: one subscriber has received two frames in order, the send of
\* the second frame to the other subscriber has failed and that subscriber has
\* been removed
C18_Witness ==
    /\ FramesHeard("a1") = <<1, 2>>
    /\ FramesHeard("a2") = <<1>>
    /\ pc["a2"] = "loop"
    /\ room.audio_sockets = {"a1"}
    /\ ~audio.sending

\* C19: an error raised while the reaper closes an idle room is absorbed: the
\* reaper task never ends with it, so it stays able to perform later iterations
\* until the stop signal is set.
C19_ReaperAbsorbsErrors == pc["reaper"] # "crashed"

\* C20: lifespan stops waiting for the reaper only when the reaper has ended
\* on the stop signal, and it goes on to close_all, which empties the registry
\* and calls close on the room that was in it.
C20_GracefulShutdown ==
    [][(pc["lifespan"] = "await_reaper" /\ pc'["lifespan"] # "await_reaper")
          => /\ pc["reaper"] = "stopped"
             /\ pc'["lifespan"] \in {"closing_all", "done"}
             /\ rooms' = {}
             /\ rooms # {} => closeCalls' = closeCalls + 1]_vars

\* a step in which one of the stamping operations has succeeded
StampingStep ==
    \/ \E w \in ControlSockets, r \in Roles :
           ControlConnect(w, IssuedToken(r)) /\ room'.control_sockets[w] = r
    \/ \E w \in ControlSockets : ControlDisconnect(w) /\ room.control_sockets[w] # NoRole
    \/ \E w \in ControlSockets, c \in ControlIds, b \in BOOLEAN : ReceiveInteraction(w, b, c)
    \/ \E w \in ControlSockets :
           /\ pc[w] = "loop" /\ pc'[w] \in {"loop", "sending"}
           /\ \/ \E text \in Texts, weight \in Weights : ReceivePromptAdd(w, text, weight)
              \/ \E id \in PromptIds, weight \in Weights : ReceivePromptUpdate(w, id, weight)
              \/ \E id \in PromptIds : ReceivePromptRemove(w, id)
              \/ \E c \in Commands : ReceivePlayback(w, c)
              \/ ReceivePatch(w, <<<<"bpm", Num(140, 1)>>>>)
    \/ \E t \in ControlSockets : BroadcastFinish(t) /\ bc[t].stale # {}

\* C21: updated_at of the room never decreases, and every successful control
\* socket registration or unregistration, set_active_control, add_prompt,
\* update_prompt_weight, remove_prompt, apply_music_config_patch,
\* handle_playback_command and stale-subscriber eviction stamps it with the
\* current time (later than the old stamp whenever the clock has moved).
C21_UpdatedAtAdvances ==
    /\ [][room'.updated_at >= room.updated_at]_vars
    /\ [][StampingStep
             => /\ room'.updated_at = now
                /\ room.updated_at < now => room'.updated_at > room.updated_at]_vars

\* C21 witness: prompts were added and playback started at time 0, the clock
\* has moved, and the eviction of a stale control subscriber whose handler is
\* still in its loop has stamped the room again
C21_Witness ==
    /\ now = 1
    /\ room.updated_at = 1
    /\ Len(room.prompts) = 1
    /\ room.playback_state = "playing"
    /\ room.control_sockets["w2"] = NoRole
    /\ pc["w2"] = "loop"
    /\ ~room.participants["B"].connected

\* the payload a token carries, as verify_token decodes it
TokenPayload == json_loads(b64url_decode(issued.token.payload_segment))

\* C22: a token verified under the secret it was created with, before its
\* expiry, is accepted, and the mapping returned holds every key and value of
\* the payload given to create_token, plus iat and exp with exp = iat + ttl.
C22_TokenRoundTrip ==
    (verdict.made /\ verdict.secret = issued.secret /\ wall <= exp_of(TokenPayload))
        => /\ verdict.raised = ""
           /\ \A k \in TokenKeys :
                  issued.payload[k] # Absent => verdict.payload[k] = issued.payload[k]
           /\ verdict.payload["iat"].ty = "num"
           /\ verdict.payload["exp"].ty = "num"
           /\ verdict.payload["exp"].n = verdict.payload["iat"].n + issued.ttl_seconds

\* C23: a token verified under a secret other than the one it was created
\* with is rejected with the invalid-signature error, and nothing of its
\* payload is returned.
C23_WrongSecretRejected ==
    (verdict.made /\ verdict.secret # issued.secret)
        => /\ verdict.raised = "Invalid token signature"
           /\ verdict.payload = NoDict

\* C24: update_prompt_weight and remove_prompt called with an id no prompt of
\* the room has raise; the prompt list, updated_at and the rest of the room
\* state stay as they were, the generator gets no apply_state call, and no
\* snapshot broadcast is started or delivered.
C24_UnknownPromptId ==
    [][\A id \in PromptIds \ PromptIdsOf(room.prompts) :
          (\/ \E weight \in Weights : ~float_raises(weight) /\ ReceivePromptUpdate("w1", id, weight)
           \/ ReceivePromptRemove("w1", id))
          => /\ DispatchRaised("w1")
             /\ room' = room
             /\ lyria' = lyria
             /\ bc' = bc
             /\ lastRecv' = lastRecv]_vars

\* C24 witness: a call with an unknown id has just raised in a room that
\* holds no prompt any more, was last touched earlier and has a second
\* subscriber; the generator is playing
C24_Witness ==
    /\ pc["w1"] = "send_error"
    /\ pc["w2"] = "loop"
    /\ room.control_sockets["w2"] = "B"
    /\ minted = 1
    /\ Len(room.prompts) = 0
    /\ lyria.playing
    /\ room.updated_at < now

\* C25: for every mutation, the state its apply_state call hands to the
\* generator (prompts, config, playback state) equals the snapshot the mutation
\* took in its own critical section, whatever the other peer does meanwhile.
C25_ApplyStateGetsOwnSnapshot ==
    \A p \in ControlSockets :
        (live[p].at = "idle" /\ live[p].op = "mutation") => live[p].got = live[p].snap

\* faulty variant: _broadcast_control_payload holds the room lock from the copy
\* of the client list to the eviction
lock_blocks_across_sends(lock) ==
    IF lock = "room" THEN {<<254, 278>>} ELSE {<<305, 313>>}

\* the "async with self._lock" blocks of room_manager.py, by first and last
\* line: those of Room (the room lock) and of RoomManager (the manager lock)
lock_blocks(lock) ==
    IF lock = "room"
    THEN {<<75, 89>>, <<92, 97>>, <<100, 106>>, <<109, 110>>, <<113, 114>>, <<117, 118>>,
          <<121, 124>>, <<127, 131>>, <<136, 146>>, <<151, 157>>, <<162, 168>>,
          <<179, 187>>, <<202, 203>>, <<206, 209>>, <<228, 229>>, <<243, 245>>,
          <<254, 255>>, <<271, 278>>}
    ELSE {<<293, 294>>, <<298, 299>>, <<305, 306>>, <<312, 313>>, <<317, 318>>, <<325, 327>>}

\* the lines of room_manager.py on the call stack of a task suspended at a
\* position (main.py and lyria.py take neither lock)
frames(position) ==
    CASE position = "sending" -> {213, 264, 268}
      [] position = "audio_format" -> {220}
      [] position = "closing" -> {72, 311, 322}
      [] position = "closing_all" -> {72, 328}
      [] position = "producer_sending" -> {240, 249}
      [] position = "connect" -> {67}
      [] position = "cmd" -> {190, 192, 194, 196}
      [] position \in {"prompts", "config", "playback"} -> {68, 132, 147, 158, 170, 198}
      [] OTHER -> {}

\* the positions at which a task is suspended in a subscriber send, a
\* generator call or a sleep
SuspensionPoints ==
    {"sending", "audio_format", "send_error", "auth_error", "closing", "closing_all",
     "producer_sending", "connect", "cmd", "prompts", "config", "playback", "wait"}

\* the locks a task suspended at the position holds
locks_held(position) ==
    {lock \in {"room", "manager"} :
        \E l \in frames(position), b \in lock_blocks(lock) : b[1] <= l /\ l <= b[2]}

\* C26: no task is suspended in a subscriber send, a generator call or a sleep
\* while it holds the room lock or the manager lock; while one handler's
\* snapshot send is pending, the other peer's mutation can take the room lock.
C26_LockHygiene ==
    /\ \A position \in SuspensionPoints : locks_held(position) = {}
    /\ \A t \in Tasks : locks_held(pc[t]) = {}
    /\ audio.sending => locks_held("producer_sending") = {}
    /\ \A p \in ControlSockets : locks_held(live[p].at) = {}
    /\ (pc["w1"] = "sending" /\ bc["w1"].pending # {} /\ pc["w2"] = "loop")
           => ENABLED ReceiveInteraction("w2", TRUE, "c1")

\* C26 witness: w1 is suspended in a snapshot fan-out with a send still
\* pending while w2 is registered and in its receive loop
C26_Witness ==
    /\ pc["w1"] = "sending"
    /\ "w2" \in bc["w1"].pending
    /\ pc["w2"] = "loop"
    /\ room.control_sockets["w2"] \in Roles

\* C27: every prompt of the room has a non-empty text and a weight within
\* [-10, 10], whatever prompt.add and prompt.update_weight events were
\* dispatched (an add or an update with a weight out of range is rejected).
C27_PromptsValid ==
    \A i \in 1..Len(room.prompts) :
        ~weighted_prompt_raises(room.prompts[i].text, room.prompts[i].weight)

\* no call of a peer into the room is in flight
LiveQuiescent == \A p \in ControlSockets : live[p].at \in {"new", "idle"}

\* the room's session is producing audio: the remote service was last told to
\* play on a session whose receive task is alive, or the fallback mock's
\* producer is alive and playing
LiveProducing ==
    \/ remote.session /\ remote.recv_task = "alive" /\ remote.far = "playing"
    \/ /\ remote.using_mock
       /\ remote.mock_fallback.task = "alive"
       /\ remote.mock_fallback.running
       /\ remote.mock_fallback.playing

\* C28: whenever no command or other mutation is in flight on a room whose
\* session has been started, the generator is producing audio if and only if
\* playback_state is playing, whatever play, pause, stop and reset_context
\* commands the two peers have issued concurrently.
C28_GeneratorAgreesWithState ==
    (room.lyria_started /\ LiveQuiescent)
        => (LiveProducing <=> room.playback_state = "playing")

\* C29: the generator is not started before a subscriber has reached
\* ensure_session, and however the ensure_session calls of concurrently
\* connecting sockets interleave, its initialization begins at most once (one
\* remote connection, one receive or producer task).
C29_LazySingleStart ==
    /\ (\A p \in ControlSockets : live[p].at = "new")
           => (conns.inits = 0 /\ ~remote.running /\ remote.recv_task = "none")
    /\ conns.inits <= 1

\* the call just made on the remote session went to the embedded mock, which
\* is left as mf, and nothing of it reached the remote service
Delegated(mf) ==
    /\ remote'.mock_fallback = mf
    /\ ~remote'.reached
    /\ remote'.using_mock
    /\ remote'.far = remote.far
    /\ remote'.session = remote.session
    /\ remote'.session_ctx = remote.session_ctx
    /\ remote'.recv_task = remote.recv_task

\* C30: a start whose remote initialization raises returns normally with the
\* session running, marked as using the mock and the mock started; from then
\* on apply_state, play, pause, stop, reset_context and close go to the
\* embedded mock and never reach the remote service.
C30_RemoteFallback ==
    /\ [][\A o \in StartOutcomes \ {"ok"} :
             (RemoteStart(o) /\ ~remote.running)
             => /\ remote'.running
                /\ remote'.using_mock
                /\ ~gen_raised'["remote"]
                /\ remote'.mock_fallback = lyria_start(remote.mock_fallback)]_vars
    /\ [][remote.using_mock
             => /\ \A st \in GenStates :
                       RemoteApplyState(st)
                       => Delegated(lyria_apply_state(remote.mock_fallback, st))
                /\ \A c \in {"play", "pause", "stop", "reset_context"} :
                       RemoteCommand(c) => Delegated(lyria_command(remote.mock_fallback, c))
                /\ RemoteClose => Delegated(lyria_close(remote.mock_fallback))]_vars

\* C30 witness: initialization raised after the remote session was
\* established; the session is running on the mock, and the apply_state call
\* just made set the mock playing without reaching the remote session
C30_Witness ==
    /\ remote.using_mock
    /\ remote.running
    /\ remote.session
    /\ remote.recv_task = "alive"
    /\ gen_last["remote"] = "apply_state"
    /\ remote.mock_fallback.playing
    /\ remote.far = "none"
    /\ ~remote.reached

\* C31: once close() has returned on a generator session (mock, remote, or
\* remote that fell back to the mock), and until the next call on it, the
\* session has no producer or receive task alive and no remote session open;
\* the callback is invoked by these tasks only, so it is not invoked again.
C31_ClosedSessionIsQuiet ==
    /\ (gen_last["mock"] = "close" /\ ~gen_raised["mock"]) => mock.task # "alive"
    /\ (gen_last["remote"] = "close" /\ ~gen_raised["remote"])
          => /\ remote.mock_fallback.task # "alive"
             /\ remote.recv_task # "alive"
             /\ ~remote.session

\* C32: while the server is serving there is no state in which a control or
\* audio socket is registered in a room that has been removed from the
\* registry or whose generator has been closed, however close_room_if_idle
\* (reaper or socket cleanup) interleaves with the connecting handlers.
C32_NoSubscriberInDestroyedRoom ==
    (/\ pc["lifespan"] = "serving"
     /\ \/ \E w \in ControlSockets : room.control_sockets[w] \in Roles
        \/ room.audio_sockets # {})
        => /\ get_room(rooms, RoomId) # RoomNotFoundError
           /\ ~(closeCalls > 0 /\ \A t \in Tasks : pc[t] # "closing")

====
